---- MODULE Spec2Model ----
(***************************************************************************)
(* Cloud-phone rental service: subscription/payment state machine, device  *)
(* pool, session lifecycle and capture orchestrator, modelled from         *)
(* server/telegram-bot.ts (bot handlers and DatabaseStorage),              *)
(* server/crypto-pay.ts, server/providers/index.ts and the admin routes.   *)
(*                                                                         *)
(* Every asynchronous handler is a task with a program counter; one model  *)
(* step is the code between two awaits that touch shared state.  Time is   *)
(* counted in minutes.  Row ids are creation indexes; 0 is "no row".       *)
(***************************************************************************)
EXTENDS Integers, Sequences, FiniteSets, TLC

\* ------------------------------------------------------------------ bounds
NumCustomers == 1   \* customers of the capture-request specification
NumPhones == 1      \* devices
MaxSubs == 2        \* subscriptions (and invoices) ever created
MaxSessions == 1    \* sessions ever created in the capture-request specification
MaxTasks == 2       \* request handlers in flight at once
MaxTicks == 1       \* clock advances
SigSpace == 3       \* distinct signature values
MaxActivations == 2 \* activations of one subscription by the administrator's route
MaxRefreshes == 3   \* token requests of the VMOS adapter

Customers == 1..NumCustomers
Phones == 1..NumPhones
\* the customer whose payments the payment specifications follow
Payer == {1}
\* the same with one rival customer, one more device and one more session
Crowd == 1..(NumCustomers + 1)
Pool == 1..(NumPhones + 1)
CrowdSessions == MaxSessions + 1
TaskIds == 1..MaxTasks
\* the two parties of a race for a device
Rivals == {1, 2}

\* ---------------------------------------------------------- program constants
NULL == 0 - 1
DayMinutes == 24 * 60
\* RENTAL_PLANS: id -> days
PlanIds == {"1week", "2weeks", "1month"}
PlanDays(plan) ==
  CASE plan = "1week" -> 7
    [] plan = "2weeks" -> 14
    [] plan = "1month" -> 30
\* the plan of the specification's scenarios
ScenarioPlans == {"2weeks"}
\* durationMinutes of every session the bot creates
SessionMinutes == 5

\* ------------------------------------------------------------------- state
VARIABLES
  now,                   \* wall clock (new Date()), minutes
  ticks,                 \* number of clock advances so far
  config,                \* crypto-pay.ts `config`: the token, or NULL when unset
  phones,                \* cloud_phones rows: [status]
  customers,             \* customers rows: [isBlocked, totalSessions]
  subs,                  \* subscriptions rows, in creation order (id = index)
  invoices,              \* the payment processor's invoices (id = index): status
  pendingPlanSelections, \* Map<telegramId, planId>; "none" = no entry
  planMenuShown,         \* customers whose chat holds a plan_* button menu
  tasks,                 \* in-flight request handlers: kind, pc and locals
  activations,           \* history: activateSubscription() row writes per subscription
  assignAttempts,        \* history: device selections by activateSubscription() per subscription
  whReturn,              \* history: what the request handled last returned (bot updates return nothing)
  sessions,              \* rental_sessions rows, in creation order
  qrCodes,               \* qr_codes rows (one per session, same index)
  flows,                 \* the detached capture flow of each session: pc and locals
  pendingTrackingInput,  \* Set<telegramId>
  qrHistory,             \* history: the statuses each qr_codes row has held
  lastOp,                \* history: the last device-pool operation and its device
  cap,                   \* one run of captureQrCode / captureQrCodeForTracking
  lastQuote,             \* history: the last convertEurToAsset call of an asset selection
  probe,                 \* one adapter call: the provider's response and what the adapter returned
  vmos,                  \* VMOSProvider: stsToken, tokenExpiry and the request() calls in flight
  screenshot,            \* one takeScreenshot call: the provider's response and the result
  expiredNotice,         \* customers told "Your subscription has expired" on a tracking number
  listing                \* one mapStatus or listDevices call of an adapter: input and result

vars == <<now, ticks, config, phones, customers, subs, invoices,
          pendingPlanSelections, planMenuShown, tasks,
          activations, assignAttempts, whReturn,
          sessions, qrCodes, flows, pendingTrackingInput, qrHistory, lastOp, cap,
          lastQuote, probe, vmos, screenshot, expiredNotice, listing>>

clock == <<now, ticks>>
auxNew == <<vmos, screenshot, expiredNotice, listing>>
auxAll == <<lastQuote, probe, auxNew>>
rentAll == <<sessions, qrCodes, flows, pendingTrackingInput, qrHistory, lastOp, cap>>
payAll == <<config, invoices, pendingPlanSelections, planMenuShown,
            activations, assignAttempts, whReturn>>

\* the subscription (and invoice) ids of this run
SubIds == DOMAIN activations

Idle == [kind |-> "idle", pc |-> "idle", cust |-> 0, sub |-> 0, phone |-> 0,
         inv |-> 0, plan |-> "none", sess |-> 0, qr |-> 0]

NoOp == [op |-> "none", phone |-> 0, afterRelease |-> FALSE, live |-> FALSE,
         found |-> "none"]

CapIdle == [pc |-> "idle", tracking |-> FALSE, provider |-> "none",
            registered |-> FALSE, calls |-> <<>>,
            firstOnline |-> "none", started |-> "none", step |-> 0,
            threw |-> FALSE, result |-> "none",
            error |-> "none", commandFailed |-> FALSE, shot |-> "none",
            secondOnline |-> "none", launched |-> "none"]

\* no conversion has been asked for yet
\* RENTAL_PLANS: id -> priceEur
PlanPrice(plan) ==
  CASE plan = "1week" -> 15
    [] plan = "2weeks" -> 25
    [] plan = "1month" -> 45

\* one entry of the getExchangeRates result for a (source, target) pair, or
\* no entry for the pair; rate is parseFloat(rate) in hundredths
NoRate == [present |-> FALSE, rate |-> 0, is_valid |-> FALSE]
RateEntries(values) == {NoRate} \cup [present : {TRUE}, rate : values, is_valid : BOOLEAN]

\* the processor's answer to getExchangeRates: data.ok and the entries for
\* EUR->USD, asset->USD and asset->EUR
FailedRequest == [ok |-> FALSE, eurUsd |-> NoRate, assetUsd |-> NoRate, assetEur |-> NoRate]

\* the assets of the scenarios (two of SUPPORTED_ASSETS) and their rates
QuoteAssets == {"USDT", "BTC"}
EurUsdRates == {108}
UsdRates(asset) == IF asset = "BTC" THEN {6000000} ELSE {100}
EurRates(asset) == IF asset = "BTC" THEN {5500000} ELSE {93}
Responses(asset) ==
  {FailedRequest} \cup [ok : {TRUE}, eurUsd : RateEntries(EurUsdRates),
                        assetUsd : RateEntries(UsdRates(asset)),
                        assetEur : RateEntries(EurRates(asset))]

\* Number.prototype.toFixed(f) of the quotient num / den, as the sequence
\* <<integer part, first decimal, ..., f-th decimal>>: long division, then
\* rounding to the nearest with ties upwards.  The quotient is exact here
\* where the code's is an IEEE double.
RECURSIVE Decimals(_, _, _)
Decimals(r, den, k) ==
  IF k = 0 THEN <<>> ELSE <<(r * 10) \div den>> \o Decimals((r * 10) % den, den, k - 1)
RECURSIVE Remainder(_, _, _)
Remainder(r, den, k) ==
  IF k = 0 THEN r ELSE Remainder((r * 10) % den, den, k - 1)
RECURSIVE RoundUpAt(_, _)
RoundUpAt(digits, i) ==
  IF i = 1 \/ digits[i] < 9 THEN [digits EXCEPT ![i] = @ + 1]
  ELSE RoundUpAt([digits EXCEPT ![i] = 0], i - 1)
toFixed(num, den, f) ==
  LET truncated == <<num \div den>> \o Decimals(num % den, den, f)
  IN IF 2 * Remainder(num % den, den, f) >= den
     THEN RoundUpAt(truncated, f + 1)
     ELSE truncated

\* asset === "BTC" ? 8 : 2
AssetDecimals(asset) == IF asset = "BTC" THEN 8 ELSE 2

\* convertEurToAsset lines 82-85: eurAmount * eurToUsd / assetToUsd
CrossAmount(eurAmount, asset, rates) ==
  toFixed(eurAmount * rates.eurUsd.rate, rates.assetUsd.rate, AssetDecimals(asset))
\* lines 88-91: eurAmount / direct
DirectAmount(eurAmount, asset, rates) ==
  toFixed(eurAmount * 100, rates.assetEur.rate, AssetDecimals(asset))

\* rates.find(r => r.source === .. && r.target === .. && r.is_valid)
Found(entry) == entry.present /\ entry.is_valid

\* convertEurToAsset, lines 75-100: the amount, or the throw of line 95 or of
\* getExchangeRates (apiRequest without a configuration or with !data.ok)
convertEurToAsset(eurAmount, asset, cfg, response) ==
  IF cfg = NULL \/ ~response.ok
  THEN [outcome |-> "failed", source |-> "request", amount |-> <<>>]
  ELSE IF Found(response.eurUsd) /\ Found(response.assetUsd)
  THEN [outcome |-> "quoted", source |-> "cross",
        amount |-> CrossAmount(eurAmount, asset, response)]
  ELSE IF Found(response.assetEur)
  THEN [outcome |-> "quoted", source |-> "direct",
        amount |-> DirectAmount(eurAmount, asset, response)]
  ELSE [outcome |-> "failed", source |-> "none", amount |-> <<>>]

NoQuote == [asset |-> "none", eur |-> 0, response |-> FailedRequest, outcome |-> "none",
            source |-> "none", amount |-> <<>>, reply |-> "none"]
\* the device ids of the adapter scenarios
DeviceIds == {"d1", "d2"}
\* what a provider reports for a device: nothing, or its native status (the
\* numbers of DuoPlus and VMOS as their decimal strings)
NativeStatuses(adapter) ==
  CASE adapter = "GeeLark" -> {"running", "online", "stopped", "starting"}
    [] adapter = "DuoPlus" -> {"1", "2", "10", "99"}
    [] adapter = "VMOS Cloud" -> {"10", "20", "5", "15"}
    [] OTHER -> {}
\* a status field as it arrives in a provider's JSON body: a string, a number
\* (as its decimal string), or something else; missing is undefined or null
JsonStatuses ==
  [type : {"string"},
   val : {"running", "Online", "off", "booting", "stopping", "paused"}]
  \cup [type : {"number"}, val : {"0", "1", "2", "5", "10", "11", "15", "20", "99"}]
  \cup {[type |-> "missing", val |-> ""], [type |-> "boolean", val |-> "true"],
        [type |-> "object", val |-> "{}"]}
\* devices in one answer to a list request
MaxListed == 2
NoListing == [pc |-> "idle", adapter |-> "none",
              input |-> [type |-> "missing", val |-> ""], mapped |-> "none",
              kind |-> "none", statuses |-> <<>>, devices |-> <<>>, threw |-> FALSE]
NoDevices == [d \in DeviceIds |-> "absent"]
NoResponse == [kind |-> "none", devices |-> NoDevices]
NoResult == [online |-> FALSE, status |-> "none", threw |-> FALSE]
NoProbe == [pc |-> "idle", adapter |-> "none", deviceId |-> "none", token |-> "none",
            response |-> NoResponse, result |-> NoResult]

\* CRYPTO_BOT_TOKEN, the secret the processor and the service share
Token == 1

\* ------------------------------------------------------ webhook signatures
\* createHmac("sha256", key).update(msg).digest(): a keyed hash over a small
\* space; messages and keys are numbers.
Hmac(key, msg) == (key * 2 + msg + 1) % SigSpace

\* "WebAppData", the fixed domain-separation label
WebAppData == 2

\* Raw request bodies.  json = FALSE is a body JSON.parse rejects.
Bodies ==
  [json : {TRUE}, update_type : {"invoice_paid"}, invoice_id : SubIds]
  \cup {[json |-> TRUE, update_type |-> "other", invoice_id |-> 0],
        [json |-> FALSE, update_type |-> "other", invoice_id |-> 0]}

\* the bytes of a body, as the number the hash is taken over
BodyCode(body) ==
  IF ~body.json THEN 0
  ELSE IF body.update_type = "other" THEN 1
  ELSE 1 + body.invoice_id

ExpectedSignature(cfg, body) == Hmac(Hmac(WebAppData, cfg), BodyCode(body))

\* signature header values; NULL is a request without the header
Signatures == (0..(SigSpace - 1)) \cup {NULL}

VerifyAnySignature(cfg, body, signature) == cfg # NULL

verifyWebhookSignature(cfg, body, signature) ==
  IF cfg = NULL THEN FALSE
  ELSE ExpectedSignature(cfg, body) = signature

\* ------------------------------------------------------------------ storage
SubsOf(c) == {i \in 1..Len(subs) : subs[i].customerId = c}

\* status = pending_payment, ORDER BY created_at DESC LIMIT 1; 0 = undefined
getPendingSubscriptionByCustomer(c) ==
  LET P == {i \in SubsOf(c) : subs[i].status = "pending_payment"}
  IN IF P = {} THEN 0 ELSE CHOOSE i \in P : \A j \in P : j <= i

IsValidActive(s, t) ==
  /\ s.status = "active"
  /\ s.expiresAt # NULL
  /\ s.expiresAt > t

\* status = active AND expires_at > now, ORDER BY expires_at DESC LIMIT 1:
\* the rows that may come first (ties are in unspecified order)
ActiveSubscriptionCandidates(c) ==
  LET A == {i \in SubsOf(c) : IsValidActive(subs[i], now)}
  IN {i \in A : \A j \in A : subs[j].expiresAt <= subs[i].expiresAt}

getSubscriptionByInvoiceId(inv) ==
  LET S == {i \in 1..Len(subs) : subs[i].invoiceId = inv}
  IN IF S = {} THEN 0 ELSE CHOOSE i \in S : TRUE

\* SELECT ... WHERE status = 'available' (no ORDER BY: any order)
getAvailablePhones == {p \in DOMAIN phones : phones[p].status = "available"}

\* postnummer && dhlAccountName: whether an administrator has entered the
\* delivery identity of the device (the first synced device has none yet)
HasAccount(p) == p > 1

\* activateSubscription lines 379-380: the phones that may come first among
\* those with a delivery identity, else among all available ones
AssignmentChoices(available) ==
  LET withAccount == {p \in available : HasAccount(p)}
  IN IF withAccount # {} THEN withAccount ELSE available

\* an activation that gives every plan the two weeks of the scenario
storageActivateTwoWeeks(s, t) ==
  [s EXCEPT !.status = "active", !.paidAt = t, !.startsAt = t,
            !.expiresAt = t + PlanDays("2weeks") * DayMinutes]

\* DatabaseStorage.activateSubscription: unconditional update of the row
storageActivate(s, t) ==
  [s EXCEPT !.status = "active", !.paidAt = t, !.startsAt = t,
            !.expiresAt = t + PlanDays(s.plan) * DayMinutes]

\* DatabaseStorage.updateCloudPhoneStatus (last_used is not modelled)
updateCloudPhoneStatus(p, status) ==
  phones' = [phones EXCEPT ![p].status = status]

NewSubscription(c, plan, inv) ==
  [customerId |-> c, plan |-> plan, status |-> "pending_payment",
   invoiceId |-> inv, assignedPhoneId |-> 0,
   paidAt |-> NULL, startsAt |-> NULL, expiresAt |-> NULL]

\* ------------------------------------------------------------------ helpers
AllIdle == \A t \in TaskIds : tasks[t].kind = "idle"

\* a handler takes the lowest free slot
FreeSlot(t) ==
  /\ tasks[t].kind = "idle"
  /\ \A u \in 1..(t - 1) : tasks[u].kind # "idle"

SetTask(t, rec) == tasks' = [tasks EXCEPT ![t] = rec]
Finish(t) == tasks' = [tasks EXCEPT ![t] = Idle]

At(t, kind, pc) == tasks[t].kind = kind /\ tasks[t].pc = pc

\* a webhook request is answered: the return site, the value returned there
\* (the route's 400 for a request without the header), the invoice named
WebhookResult(site) ==
  IF site = "no header" THEN "400"
  ELSE IF site \in {"signature", "json"} THEN "false"
  ELSE "true"

\* a bot update handler returns nothing
NoReturn == whReturn' = [result |-> "none", inv |-> 0, site |-> "none"]

Return(site, inv) ==
  whReturn' = [result |-> WebhookResult(site), inv |-> inv, site |-> site]

\* ---------------------------------------------------------------- Init
\* this.tokenExpiry = Date.now() + 55 * 60 * 1000
TokenLifetimeMinutes == 55
\* VMOSProvider after construction: stsToken null (0), tokenExpiry 0, no call
\* of request() in flight; refreshes counts the token requests sent so far
NoCall == [pc |-> "idle", token |-> 0]
NoVmos == [stsToken |-> 0, tokenExpiry |-> 0, refreshes |-> 0,
           calls |-> [k \in TaskIds |-> NoCall]]
\* ScreenshotResult: imageData absent, a buffer of no bytes, or bytes;
\* imageUrl absent, a URL, or the "pending:taskId=" text; error set or not
NoShotResult == [success |-> FALSE, imageData |-> "absent", imageUrl |-> "absent",
                 error |-> FALSE, threw |-> FALSE]
\* what the provider answers during one takeScreenshot
NoShotResponse == [request |-> "none", body |-> "none", taskId |-> FALSE,
                   download |-> "none", screencap |-> "none"]
NoShot == [pc |-> "idle", adapter |-> "none", response |-> NoShotResponse,
           result |-> NoShotResult]

\* The service after start-up: the customers have registered (/start), the
\* devices have been synced from the providers (online ones as available,
\* the others as maintenance), and there is no subscription yet.  The token
\* is one of cfgs, and customer c has chosen the plan plans[c] from a plan
\* menu that is still in the chat ("none": no choice is waiting for its asset)
InitService(CS, PS, NS, cfgs, plans) ==
  /\ now = 0
  /\ ticks = 0
  /\ config \in cfgs
  /\ phones \in [PS -> [status : {"available", "maintenance"}]]
  /\ customers = [c \in CS |-> [isBlocked |-> FALSE, totalSessions |-> 0]]
  /\ subs = <<>>
  /\ invoices = <<>>
  /\ pendingPlanSelections = plans
  /\ planMenuShown = {c \in CS : plans[c] # "none"}
  /\ tasks = [t \in TaskIds |-> Idle]
  /\ activations = [i \in 1..NS |-> 0]
  /\ assignAttempts = [i \in 1..NS |-> 0]
  /\ whReturn = [result |-> "none", inv |-> 0, site |-> "none"]
  /\ sessions = <<>>
  /\ qrCodes = <<>>
  /\ flows = <<>>
  /\ pendingTrackingInput = {}
  /\ qrHistory = <<>>
  /\ lastOp = NoOp
  /\ cap = CapIdle
  /\ lastQuote = NoQuote
  /\ probe = NoProbe
  /\ vmos = NoVmos
  /\ screenshot = NoShot
  /\ expiredNotice = {}
  /\ listing = NoListing

\* no plan selection is waiting; the token may be unset
InitFor(CS, PS, NS) == InitService(CS, PS, NS, {NULL, Token}, [c \in CS |-> "none"])

\* every customer has chosen the two-week plan from the menu (line 221) and
\* has not chosen an asset yet
InitAwaitingAsset(CS, PS, NS) == InitService(CS, PS, NS, {Token}, [c \in CS |-> "2weeks"])

\* =================================================================
\* Subscription / payment handlers (telegram-bot.ts)
\* =================================================================
\* handleSubscribe: shows the plan menu unless the customer is blocked or
\* already holds an active or a pending subscription
Subscribe(t, c) ==
  /\ FreeSlot(t)
  /\ planMenuShown' =
       IF \/ customers[c].isBlocked
          \/ ActiveSubscriptionCandidates(c) # {}
          \/ getPendingSubscriptionByCustomer(c) # 0
       THEN planMenuShown
       ELSE planMenuShown \cup {c}
  /\ NoReturn
  /\ UNCHANGED <<clock, auxAll, config, phones, customers, subs, invoices,
                 pendingPlanSelections, tasks, activations, assignAttempts, rentAll>>

\* handlePlanSelection: callback plan_<id> from a plan menu in the chat
PlanSelection(t, c, plan) ==
  /\ FreeSlot(t)
  /\ c \in planMenuShown
  /\ pendingPlanSelections' =
       IF config = NULL THEN pendingPlanSelections
       ELSE [pendingPlanSelections EXCEPT ![c] = plan]
  /\ NoReturn
  /\ UNCHANGED <<clock, auxAll, config, phones, customers, subs, invoices,
                 planMenuShown, tasks, activations, assignAttempts, rentAll>>

\* invoices the processor has issued plus those the in-flight asset
\* selections are about to request
InvoicesCommitted ==
  Len(invoices) + Cardinality({u \in TaskIds : At(u, "asset", "invoice")})

\* the same handler leaving the pending plan selection in place
AssetSelectionBeginKeepsFlag(t, c) ==
  /\ FreeSlot(t)
  /\ InvoicesCommitted < Cardinality(SubIds)
  /\ IF pendingPlanSelections[c] = "none"
     THEN UNCHANGED tasks
     ELSE SetTask(t, [Idle EXCEPT !.kind = "asset", !.pc = "invoice",
                                  !.cust = c, !.plan = pendingPlanSelections[c]])
  /\ NoReturn
  /\ UNCHANGED <<clock, auxAll, config, phones, customers, subs, invoices,
                 pendingPlanSelections, planMenuShown, activations,
                 assignAttempts, rentAll>>

\* handleAssetSelection, lines 257-272: consume the pending plan selection.
\* get (line 260) and delete (line 272) run without an await between them,
\* so reading and clearing the flag is one step
AssetSelectionBegin(t, c) ==
  /\ FreeSlot(t)
  /\ InvoicesCommitted < Cardinality(SubIds)
  /\ IF pendingPlanSelections[c] = "none"
     THEN UNCHANGED <<pendingPlanSelections, tasks>>
     ELSE /\ pendingPlanSelections' = [pendingPlanSelections EXCEPT ![c] = "none"]
          /\ SetTask(t, [Idle EXCEPT !.kind = "asset", !.pc = "invoice",
                                     !.cust = c, !.plan = pendingPlanSelections[c]])
  /\ NoReturn
  /\ UNCHANGED <<clock, auxAll, config, phones, customers, subs, invoices,
                 planMenuShown, activations, assignAttempts, rentAll>>

\* lines 277-285: convertEurToAsset and createInvoice; either may throw,
\* which ends the handler in its catch block
AssetCreateInvoice(t) ==
  /\ At(t, "asset", "invoice")
  /\ \/ /\ invoices' = Append(invoices, "active")
        /\ SetTask(t, [tasks[t] EXCEPT !.pc = "getPending", !.inv = Len(invoices) + 1])
     \/ /\ Finish(t)
        /\ UNCHANGED invoices
  /\ UNCHANGED <<clock, auxAll, config, phones, customers, subs,
                 pendingPlanSelections, planMenuShown, activations,
                 assignAttempts, whReturn, rentAll>>

\* the step with a conversion that quotes nothing instead of throwing: the
\* invoice is created whenever createInvoice succeeds
AssetQuoteInvoiceWithoutThrow(t, asset, response, created) ==
  /\ At(t, "asset", "invoice")
  /\ LET quote == convertEurToAsset(PlanPrice(tasks[t].plan), asset, config, response)
     IN /\ lastQuote' = [asset |-> asset, eur |-> PlanPrice(tasks[t].plan),
                         response |-> response, outcome |-> quote.outcome,
                         source |-> quote.source, amount |-> quote.amount,
                         reply |-> IF created THEN "none" ELSE "error"]
        /\ IF ~created
           THEN /\ Finish(t)
                /\ UNCHANGED invoices
           ELSE /\ invoices' = Append(invoices, "active")
                /\ SetTask(t, [tasks[t] EXCEPT !.pc = "getPending", !.inv = Len(invoices) + 1])
  /\ UNCHANGED <<clock, probe, auxNew, config, phones, customers, subs,
                 pendingPlanSelections, planMenuShown, activations,
                 assignAttempts, whReturn, rentAll>>

\* the same step with the asset chosen and the processor's rate table given:
\* lines 277-285 and the catch block of lines 317-324, which sends the error
\* message; createInvoice may still throw after a successful conversion
AssetQuoteInvoice(t, asset, response, created) ==
  /\ At(t, "asset", "invoice")
  /\ LET quote == convertEurToAsset(PlanPrice(tasks[t].plan), asset, config, response)
         failed == quote.outcome = "failed" \/ ~created
     IN /\ lastQuote' = [asset |-> asset, eur |-> PlanPrice(tasks[t].plan),
                         response |-> response, outcome |-> quote.outcome,
                         source |-> quote.source, amount |-> quote.amount,
                         reply |-> IF failed THEN "error" ELSE "none"]
        /\ IF failed
           THEN /\ Finish(t)
                /\ UNCHANGED invoices
           ELSE /\ invoices' = Append(invoices, "active")
                /\ SetTask(t, [tasks[t] EXCEPT !.pc = "getPending", !.inv = Len(invoices) + 1])
  /\ UNCHANGED <<clock, probe, auxNew, config, phones, customers, subs,
                 pendingPlanSelections, planMenuShown, activations,
                 assignAttempts, whReturn, rentAll>>

\* line 287: read the customer's pending subscription
AssetGetPending(t) ==
  /\ At(t, "asset", "getPending")
  /\ LET pendingSub == getPendingSubscriptionByCustomer(tasks[t].cust)
     IN SetTask(t, IF pendingSub = 0
                   THEN [tasks[t] EXCEPT !.pc = "create"]
                   ELSE [tasks[t] EXCEPT !.pc = "cancelOld", !.sub = pendingSub])
  /\ UNCHANGED <<clock, auxAll, config, phones, customers, subs, invoices,
                 pendingPlanSelections, planMenuShown, activations,
                 assignAttempts, whReturn, rentAll>>

\* line 289: updateSubscriptionStatus(pendingSub.id, "cancelled")
AssetCancelOld(t) ==
  /\ At(t, "asset", "cancelOld")
  /\ subs' = [subs EXCEPT ![tasks[t].sub].status = "cancelled"]
  /\ SetTask(t, [tasks[t] EXCEPT !.pc = "create", !.sub = 0])
  /\ UNCHANGED <<clock, auxAll, config, phones, customers, invoices,
                 pendingPlanSelections, planMenuShown, activations,
                 assignAttempts, whReturn, rentAll>>

\* lines 292-304: createSubscription(status pending_payment, the invoice id)
AssetCreateSub(t) ==
  /\ At(t, "asset", "create")
  /\ subs' = Append(subs, NewSubscription(tasks[t].cust, tasks[t].plan, tasks[t].inv))
  /\ Finish(t)
  /\ UNCHANGED <<clock, auxAll, config, phones, customers, invoices,
                 pendingPlanSelections, planMenuShown, activations,
                 assignAttempts, whReturn, rentAll>>

\* handleCheckPayment, lines 330-337
CheckPaymentBegin(t, c) ==
  /\ FreeSlot(t)
  /\ LET pendingSub == getPendingSubscriptionByCustomer(c)
     IN IF pendingSub = 0 \/ subs[pendingSub].invoiceId = 0
        THEN UNCHANGED tasks
        ELSE SetTask(t, [Idle EXCEPT !.kind = "check", !.pc = "getInvoice", !.cust = c,
                                     !.sub = pendingSub,
                                     !.inv = subs[pendingSub].invoiceId])
  /\ NoReturn
  /\ UNCHANGED <<clock, auxAll, config, phones, customers, subs, invoices,
                 pendingPlanSelections, planMenuShown, activations,
                 assignAttempts, rentAll>>

\* lines 340-364: getInvoice (null when the request fails), then branch on
\* the invoice status
CheckGetInvoice(t) ==
  /\ At(t, "check", "getInvoice")
  /\ \/ Finish(t)
     \/ LET status == invoices[tasks[t].inv]
        IN IF status = "paid" THEN SetTask(t, [tasks[t] EXCEPT !.pc = "activate"])
           ELSE IF status = "expired" THEN SetTask(t, [tasks[t] EXCEPT !.pc = "cancelExpired"])
           ELSE Finish(t)
  /\ UNCHANGED <<clock, auxAll, config, phones, customers, subs, invoices,
                 pendingPlanSelections, planMenuShown, activations,
                 assignAttempts, whReturn, rentAll>>

\* line 349
CheckCancelExpired(t) ==
  /\ At(t, "check", "cancelExpired")
  /\ subs' = [subs EXCEPT ![tasks[t].sub].status = "cancelled"]
  /\ Finish(t)
  /\ UNCHANGED <<clock, auxAll, config, phones, customers, invoices,
                 pendingPlanSelections, planMenuShown, activations,
                 assignAttempts, whReturn, rentAll>>

\* handleCancelPendingSubscription, lines 419-426
CancelPendingBegin(t, c) ==
  /\ FreeSlot(t)
  /\ LET pendingSub == getPendingSubscriptionByCustomer(c)
     IN IF pendingSub = 0
        THEN UNCHANGED tasks
        ELSE SetTask(t, [Idle EXCEPT !.kind = "cancel", !.pc = "write", !.cust = c,
                                     !.sub = pendingSub])
  /\ NoReturn
  /\ UNCHANGED <<clock, auxAll, config, phones, customers, subs, invoices,
                 pendingPlanSelections, planMenuShown, activations,
                 assignAttempts, rentAll>>

\* line 428
CancelPendingWrite(t) ==
  /\ At(t, "cancel", "write")
  /\ subs' = [subs EXCEPT ![tasks[t].sub].status = "cancelled"]
  /\ Finish(t)
  /\ UNCHANGED <<clock, auxAll, config, phones, customers, invoices,
                 pendingPlanSelections, planMenuShown, activations,
                 assignAttempts, whReturn, rentAll>>

\* A request is the processor's own when its body reports something that
\* happened there; nobody else can produce the matching signature.
Genuine(body) ==
  /\ body.json
  /\ \/ body.update_type = "other"
     \/ /\ body.invoice_id \in 1..Len(invoices)
        /\ invoices[body.invoice_id] = "paid"

\* handleCryptoPayWebhook without the check of line 711
WebhookDecisionNoStatusCheck(body, signature) ==
  IF ~verifyWebhookSignature(config, body, signature) THEN "signature"
  ELSE IF ~body.json THEN "json"
  ELSE IF body.update_type # "invoice_paid" THEN "other update"
  ELSE IF getSubscriptionByInvoiceId(body.invoice_id) = 0 THEN "no subscription"
  ELSE "activate"

\* handleCryptoPayWebhook with line 711 testing for "active" only
WebhookDecisionActiveCheck(body, signature) ==
  IF ~verifyWebhookSignature(config, body, signature) THEN "signature"
  ELSE IF ~body.json THEN "json"
  ELSE IF body.update_type # "invoice_paid" THEN "other update"
  ELSE LET sub == getSubscriptionByInvoiceId(body.invoice_id)
       IN IF sub = 0 THEN "no subscription"
          ELSE IF subs[sub].status = "active" THEN "not pending"
          ELSE "activate"

\* handleCryptoPayWebhook up to the first write, lines 691-720: the site it
\* returns at, or "activate" when it goes on to activateSubscription
WebhookDecision(body, signature) ==
  IF ~verifyWebhookSignature(config, body, signature) THEN "signature"
  ELSE IF ~body.json THEN "json"
  ELSE IF body.update_type # "invoice_paid" THEN "other update"
  ELSE LET sub == getSubscriptionByInvoiceId(body.invoice_id)
       IN IF sub = 0 THEN "no subscription"
          ELSE IF subs[sub].status # "pending_payment" THEN "not pending"
          ELSE "activate"

\* POST /api/cryptopay/webhook (a request without the signature header is
\* answered 400) and handleCryptoPayWebhook up to line 720
WebhookBegin(t, body, signature) ==
  /\ FreeSlot(t)
  /\ (signature # NULL /\ signature = ExpectedSignature(Token, body)) => Genuine(body)
  /\ IF signature = NULL
     THEN Return("no header", body.invoice_id) /\ UNCHANGED tasks
     ELSE LET d == WebhookDecision(body, signature)
              sub == getSubscriptionByInvoiceId(body.invoice_id)
          IN IF d = "activate"
             THEN /\ SetTask(t, [Idle EXCEPT !.kind = "webhook", !.pc = "activate",
                                            !.inv = body.invoice_id, !.sub = sub,
                                            !.cust = subs[sub].customerId])
                  /\ UNCHANGED whReturn
             ELSE Return(d, body.invoice_id) /\ UNCHANGED tasks
  /\ UNCHANGED <<clock, auxAll, config, phones, customers, subs, invoices,
                 pendingPlanSelections, planMenuShown, activations,
                 assignAttempts, rentAll>>

\* the handler returns: handleCryptoPayWebhook returns true after
\* activateSubscription; handleCheckPayment returns nothing
FinishActivation(t) ==
  /\ Finish(t)
  /\ IF tasks[t].kind = "webhook" THEN Return("activated", tasks[t].inv) ELSE UNCHANGED whReturn

\* activateSubscription line 372: storage.activateSubscription(subscriptionId)
ActivateWrite(t) ==
  /\ tasks[t].kind \in {"webhook", "check"}
  /\ tasks[t].pc = "activate"
  /\ subs' = [subs EXCEPT ![tasks[t].sub] = storageActivate(@, now)]
  /\ activations' = [activations EXCEPT ![tasks[t].sub] = @ + 1]
  /\ SetTask(t, [tasks[t] EXCEPT !.pc = "getPhones"])
  /\ UNCHANGED <<clock, auxAll, config, phones, customers, invoices,
                 pendingPlanSelections, planMenuShown, assignAttempts,
                 whReturn, rentAll>>

\* lines 378-380: getAvailablePhones and the choice of assignedPhone
ActivateGetPhones(t) ==
  /\ tasks[t].kind \in {"webhook", "check"}
  /\ tasks[t].pc = "getPhones"
  /\ assignAttempts' = [assignAttempts EXCEPT ![tasks[t].sub] = @ + 1]
  /\ IF getAvailablePhones = {}
     THEN FinishActivation(t)
     ELSE /\ \E p \in AssignmentChoices(getAvailablePhones) :
               SetTask(t, [tasks[t] EXCEPT !.pc = "assign", !.phone = p])
          /\ UNCHANGED whReturn
  /\ UNCHANGED <<clock, auxAll, config, phones, customers, subs, invoices,
                 pendingPlanSelections, planMenuShown, activations, rentAll>>

\* line 383: storage.assignPhoneToSubscription(subscriptionId, assignedPhone.id)
ActivateAssign(t) ==
  /\ tasks[t].kind \in {"webhook", "check"}
  /\ tasks[t].pc = "assign"
  /\ subs' = [subs EXCEPT ![tasks[t].sub].assignedPhoneId = tasks[t].phone]
  /\ FinishActivation(t)
  /\ UNCHANGED <<clock, auxAll, config, phones, customers, invoices,
                 pendingPlanSelections, planMenuShown, activations,
                 assignAttempts, rentAll>>

\* PATCH /api/subscriptions/:id/cancel
AdminCancelSubscription(t, s) ==
  /\ FreeSlot(t)
  /\ s \in 1..Len(subs)
  /\ subs' = [subs EXCEPT ![s].status = "cancelled"]
  /\ NoReturn
  /\ UNCHANGED <<clock, auxAll, config, phones, customers, invoices,
                 pendingPlanSelections, planMenuShown, tasks, activations,
                 assignAttempts, rentAll>>

\* PATCH /api/subscriptions/:id/activate: storage.activateSubscription on
\* the row whatever its status (no device is selected on this path)
AdminActivateSubscription(t, s) ==
  /\ FreeSlot(t)
  /\ s \in 1..Len(subs)
  /\ activations[s] < MaxActivations
  /\ subs' = [subs EXCEPT ![s] = storageActivate(@, now)]
  /\ activations' = [activations EXCEPT ![s] = @ + 1]
  /\ NoReturn
  /\ UNCHANGED <<clock, auxAll, config, phones, customers, invoices,
                 pendingPlanSelections, planMenuShown, tasks,
                 assignAttempts, rentAll>>

\* the customer pays an invoice at the processor
PayInvoice(i) ==
  /\ i \in 1..Len(invoices)
  /\ invoices[i] = "active"
  /\ invoices' = [invoices EXCEPT ![i] = "paid"]
  /\ UNCHANGED <<clock, auxAll, config, phones, customers, subs,
                 pendingPlanSelections, planMenuShown, tasks, activations,
                 assignAttempts, whReturn, rentAll>>

\* an unpaid invoice runs out (expiresIn: 3600)
ExpireInvoice(i) ==
  /\ i \in 1..Len(invoices)
  /\ invoices[i] = "active"
  /\ invoices' = [invoices EXCEPT ![i] = "expired"]
  /\ UNCHANGED <<clock, auxAll, config, phones, customers, subs,
                 pendingPlanSelections, planMenuShown, tasks, activations,
                 assignAttempts, whReturn, rentAll>>

\* time passes: by a plan's length
TickDays ==
  /\ ticks < MaxTicks
  /\ \E plan \in ScenarioPlans : now' = now + PlanDays(plan) * DayMinutes
  /\ ticks' = ticks + 1
  /\ UNCHANGED <<auxAll, config, phones, customers, subs, invoices,
                 pendingPlanSelections, planMenuShown, tasks, activations,
                 assignAttempts, whReturn, rentAll>>

\* =================================================================
\* Capture requests and sessions (telegram-bot.ts)
\* =================================================================
\* status = active sessions of the customer, LIMIT 1 without ORDER BY: any
ActiveSessionCandidates(c) ==
  {i \in 1..Len(sessions) : sessions[i].customerId = c /\ sessions[i].status = "active"}

\* the device is bound to a session that is active and has not expired
LiveSessionOn(p) ==
  \E i \in 1..Len(sessions) :
    /\ sessions[i].status = "active"
    /\ sessions[i].phoneId = p
    /\ sessions[i].expiresAt # NULL
    /\ sessions[i].expiresAt > now

\* history of the device pool: the operation, its device, whether it follows
\* a release directly, whether the device was then bound to a live session,
\* and, for a release, the device status it found
PoolOp(op, p) ==
  lastOp' = [op |-> op, phone |-> p,
             afterRelease |-> (op = "assign" /\ lastOp.op = "release"),
             live |-> (op = "assign" /\ LiveSessionOn(p)),
             found |-> IF op = "release" THEN phones[p].status ELSE "none"]

\* DatabaseStorage.updateQrCodeStatus
updateQrCodeStatus(q, status) ==
  /\ qrCodes' = [qrCodes EXCEPT ![q].status = status]
  /\ qrHistory' = [qrHistory EXCEPT ![q] = Append(@, status)]

\* handleQrRequest
QrRequest(t, c) ==
  /\ FreeSlot(t)
  /\ pendingTrackingInput' =
       IF customers[c].isBlocked \/ ActiveSubscriptionCandidates(c) = {}
       THEN pendingTrackingInput
       ELSE pendingTrackingInput \cup {c}
  /\ UNCHANGED <<clock, auxAll, phones, customers, subs, tasks, payAll,
                 sessions, qrCodes, flows, qrHistory, lastOp, cap>>

\* the same handler looking only at the subscription's status, not at its
\* expiry
TrackingMessageStatusOnly(t, c, valid) ==
  /\ FreeSlot(t)
  /\ c \in pendingTrackingInput
  /\ pendingTrackingInput' = pendingTrackingInput \ {c}
  /\ LET active == {i \in SubsOf(c) : subs[i].status = "active"}
     IN IF ~valid
        THEN UNCHANGED <<tasks, expiredNotice>>
        ELSE IF active = {}
        THEN /\ expiredNotice' = expiredNotice \cup {c}
             /\ UNCHANGED tasks
        ELSE /\ \E activeSub \in active :
                  SetTask(t, [Idle EXCEPT !.kind = "submit", !.pc = "getPhone", !.cust = c,
                                          !.sub = activeSub,
                                          !.phone = subs[activeSub].assignedPhoneId])
             /\ UNCHANGED expiredNotice
  /\ UNCHANGED <<clock, lastQuote, probe, vmos, screenshot, listing, phones, customers,
                 subs, payAll, sessions, qrCodes, flows, qrHistory, lastOp, cap>>

\* bot.on("message") lines 107-116 and handleTrackingNumberSubmit up to
\* line 539; valid = the text has at least 10 characters.  Without a
\* subscription that is active and unexpired now the customer is told so
\* (line 537) and the handler returns
TrackingMessage(t, c, valid) ==
  /\ FreeSlot(t)
  /\ c \in pendingTrackingInput
  /\ pendingTrackingInput' = pendingTrackingInput \ {c}
  /\ IF ~valid
     THEN UNCHANGED <<tasks, expiredNotice>>
     ELSE IF ActiveSubscriptionCandidates(c) = {}
     THEN /\ expiredNotice' = expiredNotice \cup {c}
          /\ UNCHANGED tasks
     ELSE /\ \E activeSub \in ActiveSubscriptionCandidates(c) :
               SetTask(t, [Idle EXCEPT !.kind = "submit", !.pc = "getPhone", !.cust = c,
                                       !.sub = activeSub,
                                       !.phone = subs[activeSub].assignedPhoneId])
          /\ UNCHANGED expiredNotice
  /\ UNCHANGED <<clock, lastQuote, probe, vmos, screenshot, listing, phones, customers,
                 subs, payAll, sessions, qrCodes, flows, qrHistory, lastOp, cap>>

\* the same step going on to createSession with the chosen device without
\* assignPhoneToSubscription (line 554)
SubmitGetPhoneWithoutBinding(t) ==
  /\ At(t, "submit", "getPhone")
  /\ IF tasks[t].phone # 0
     THEN /\ SetTask(t, [tasks[t] EXCEPT !.pc = "createSession"])
          /\ UNCHANGED lastOp
     ELSE IF getAvailablePhones = {}
     THEN /\ Finish(t)
          /\ UNCHANGED lastOp
     ELSE \E p \in getAvailablePhones :
            /\ SetTask(t, [tasks[t] EXCEPT !.pc = "createSession", !.phone = p])
            /\ PoolOp("assign", p)
  /\ UNCHANGED <<clock, auxAll, phones, customers, subs, payAll,
                 sessions, qrCodes, flows, pendingTrackingInput, qrHistory, cap>>

\* lines 541-553: the subscription's device, else the first available one
SubmitGetPhone(t) ==
  /\ At(t, "submit", "getPhone")
  /\ IF tasks[t].phone # 0
     THEN /\ SetTask(t, [tasks[t] EXCEPT !.pc = "createSession"])
          /\ UNCHANGED lastOp
     ELSE IF getAvailablePhones = {}
     THEN /\ Finish(t)
          /\ UNCHANGED lastOp
     ELSE \E p \in getAvailablePhones :
            /\ SetTask(t, [tasks[t] EXCEPT !.pc = "assign", !.phone = p])
            /\ PoolOp("assign", p)
  /\ UNCHANGED <<clock, auxAll, phones, customers, subs, payAll,
                 sessions, qrCodes, flows, pendingTrackingInput, qrHistory, cap>>

\* an assignment that is a conditional update: the device is bound only if
\* no subscription has it, else the handler gives up
SubmitAssignIfFree(t) ==
  /\ At(t, "submit", "assign")
  /\ IF \E i \in 1..Len(subs) : subs[i].assignedPhoneId = tasks[t].phone
     THEN /\ Finish(t)
          /\ UNCHANGED subs
     ELSE /\ subs' = [subs EXCEPT ![tasks[t].sub].assignedPhoneId = tasks[t].phone]
          /\ SetTask(t, [tasks[t] EXCEPT !.pc = "createSession"])
  /\ UNCHANGED <<clock, auxAll, phones, customers, payAll, rentAll>>

\* line 554: assignPhoneToSubscription
SubmitAssign(t) ==
  /\ At(t, "submit", "assign")
  /\ subs' = [subs EXCEPT ![tasks[t].sub].assignedPhoneId = tasks[t].phone]
  /\ SetTask(t, [tasks[t] EXCEPT !.pc = "createSession"])
  /\ UNCHANGED <<clock, auxAll, phones, customers, payAll, rentAll>>

\* lines 557-562: createSession(customerId, phoneId null, status pending,
\* durationMinutes 5); startedAt, expiresAt and completedAt are not given and
\* stay null; a run creates at most maxSessions sessions
SubmitCreateSession(t, maxSessions) ==
  /\ At(t, "submit", "createSession")
  /\ Len(sessions) < maxSessions
  /\ sessions' = Append(sessions, [customerId |-> tasks[t].cust, phoneId |-> 0,
                                   status |-> "pending",
                                   durationMinutes |-> SessionMinutes,
                                   startedAt |-> NULL, expiresAt |-> NULL,
                                   completedAt |-> NULL])
  /\ SetTask(t, [tasks[t] EXCEPT !.pc = "increment", !.sess = Len(sessions) + 1])
  /\ UNCHANGED <<clock, auxAll, phones, customers, subs, payAll,
                 qrCodes, flows, pendingTrackingInput, qrHistory, lastOp, cap>>

\* line 564: incrementCustomerSessions
SubmitIncrement(t) ==
  /\ At(t, "submit", "increment")
  /\ customers' = [customers EXCEPT ![tasks[t].cust].totalSessions = @ + 1]
  /\ SetTask(t, [tasks[t] EXCEPT !.pc = "createQr"])
  /\ UNCHANGED <<clock, auxAll, phones, subs, payAll, rentAll>>

\* line 566: createQrCode(status pending)
SubmitCreateQr(t) ==
  /\ At(t, "submit", "createQr")
  /\ qrCodes' = Append(qrCodes, [sessionId |-> tasks[t].sess, status |-> "pending"])
  /\ qrHistory' = Append(qrHistory, <<"pending">>)
  /\ SetTask(t, [tasks[t] EXCEPT !.pc = "inUse", !.qr = Len(qrCodes) + 1])
  /\ UNCHANGED <<clock, auxAll, phones, customers, subs, payAll,
                 sessions, flows, pendingTrackingInput, lastOp, cap>>

\* line 575: updateCloudPhoneStatus(phone.id, "in_use")
SubmitInUse(t) ==
  /\ At(t, "submit", "inUse")
  /\ updateCloudPhoneStatus(tasks[t].phone, "in_use")
  /\ PoolOp("use", tasks[t].phone)
  /\ SetTask(t, [tasks[t] EXCEPT !.pc = "start"])
  /\ UNCHANGED <<clock, auxAll, customers, subs, payAll,
                 sessions, qrCodes, flows, pendingTrackingInput, qrHistory, cap>>

\* a start that writes the status and the device and leaves the times unset
SubmitStartStatusOnly(t) ==
  /\ At(t, "submit", "start")
  /\ sessions' = [sessions EXCEPT ![tasks[t].sess] =
                    [@ EXCEPT !.status = "active", !.phoneId = tasks[t].phone]]
  /\ flows' = Append(flows, [sess |-> tasks[t].sess, qr |-> tasks[t].qr,
                             phone |-> tasks[t].phone, pc |-> "capture",
                             shot |-> "none", error |-> "none", pushes |-> 0])
  /\ Finish(t)
  /\ UNCHANGED <<clock, auxAll, phones, customers, subs, payAll,
                 qrCodes, pendingTrackingInput, qrHistory, lastOp, cap>>

\* lines 576-580: startSession (storage 893-903: status, phoneId, startedAt
\* and expiresAt = now + durationMinutes written by one update), then the
\* capture flow is detached and the handler returns.  pushes counts the flow's outcome messages to the
\* customer: the image (592) or the success text (600), the failure text
\* (605), the error text of the catch block (614)
SubmitStart(t) ==
  /\ At(t, "submit", "start")
  /\ sessions' = [sessions EXCEPT ![tasks[t].sess] =
                    [@ EXCEPT !.status = "active", !.phoneId = tasks[t].phone,
                              !.startedAt = now,
                              !.expiresAt = now + SessionMinutes]]
  /\ flows' = Append(flows, [sess |-> tasks[t].sess, qr |-> tasks[t].qr,
                             phone |-> tasks[t].phone, pc |-> "capture",
                             shot |-> "none", error |-> "none", pushes |-> 0])
  /\ Finish(t)
  /\ UNCHANGED <<clock, auxAll, phones, customers, subs, payAll,
                 qrCodes, pendingTrackingInput, qrHistory, lastOp, cap>>

\* the results captureQrCodeForTracking can return: success with image
\* bytes, success with an image URL only, or failure
ShotResults == {"data", "url", "fail"}

\* the same step with no message to the customer on a failure result
FlowCaptureSilentFailure(f) ==
  /\ flows[f].pc = "capture"
  /\ \E shot \in ShotResults, stored \in BOOLEAN :
       /\ shot # "data" => stored
       /\ IF shot = "fail"
          THEN /\ updateQrCodeStatus(flows[f].qr, "failed")
               /\ flows' = [flows EXCEPT ![f].pc = "complete", ![f].shot = shot]
          ELSE IF ~stored
          THEN /\ updateQrCodeStatus(flows[f].qr, "failed")
               /\ flows' = [flows EXCEPT ![f].pc = "complete", ![f].shot = shot,
                                         ![f].error = "store", ![f].pushes = @ + 1]
          ELSE /\ updateQrCodeStatus(flows[f].qr, "captured")
               /\ flows' = [flows EXCEPT ![f].pc = "deliver", ![f].shot = shot]
  /\ UNCHANGED <<clock, auxAll, phones, customers, subs, tasks, payAll,
                 sessions, pendingTrackingInput, lastOp, cap>>

\* lines 582-590, 599, 604, 613: the capture returns; on success with bytes
\* the file is written (which may throw), then the status is written
FlowCapture(f) ==
  /\ flows[f].pc = "capture"
  /\ \E shot \in ShotResults, stored \in BOOLEAN :
       /\ shot # "data" => stored
       /\ IF shot = "fail"
          THEN /\ updateQrCodeStatus(flows[f].qr, "failed")
               /\ flows' = [flows EXCEPT ![f].pc = "complete", ![f].shot = shot,
                                         ![f].pushes = @ + 1]
          ELSE IF ~stored
          THEN /\ updateQrCodeStatus(flows[f].qr, "failed")
               /\ flows' = [flows EXCEPT ![f].pc = "complete", ![f].shot = shot,
                                         ![f].error = "store", ![f].pushes = @ + 1]
          ELSE /\ updateQrCodeStatus(flows[f].qr, "captured")
               /\ flows' = [flows EXCEPT ![f].pc = "deliver", ![f].shot = shot]
  /\ UNCHANGED <<clock, auxAll, phones, customers, subs, tasks, payAll,
                 sessions, pendingTrackingInput, lastOp, cap>>

\* the same step always taking the success branch
FlowDeliverIgnoresError(f) ==
  /\ flows[f].pc = "deliver"
  /\ \E sent \in BOOLEAN :
       /\ flows[f].shot = "url" => sent
       /\ updateQrCodeStatus(flows[f].qr, "delivered")
       /\ flows' = [flows EXCEPT ![f].pc = "complete",
                                 ![f].error = IF sent THEN "none" ELSE "send",
                                 ![f].pushes = @ + 1]
  /\ UNCHANGED <<clock, auxAll, phones, customers, subs, tasks, payAll,
                 sessions, pendingTrackingInput, lastOp, cap>>

\* the same step without the catch block of lines 612-616: an exception of
\* sendPhoto ends the flow where it is raised
FlowDeliverNoCatch(f) ==
  /\ flows[f].pc = "deliver"
  /\ \E sent \in BOOLEAN :
       /\ flows[f].shot = "url" => sent
       /\ IF sent
          THEN /\ updateQrCodeStatus(flows[f].qr, "delivered")
               /\ flows' = [flows EXCEPT ![f].pc = "complete", ![f].pushes = @ + 1]
          ELSE /\ flows' = [flows EXCEPT ![f].pc = "done", ![f].error = "send"]
               /\ UNCHANGED <<qrCodes, qrHistory>>
  /\ UNCHANGED <<clock, auxAll, phones, customers, subs, tasks, payAll,
                 sessions, pendingTrackingInput, lastOp, cap>>

\* a delivery after which the device is released before the session is
\* completed
FlowDeliverThenRelease(f) ==
  /\ flows[f].pc = "deliver"
  /\ \E sent \in BOOLEAN :
       /\ flows[f].shot = "url" => sent
       /\ IF sent
          THEN /\ updateQrCodeStatus(flows[f].qr, "delivered")
               /\ flows' = [flows EXCEPT ![f].pc = "release", ![f].pushes = @ + 1]
          ELSE /\ updateQrCodeStatus(flows[f].qr, "failed")
               /\ flows' = [flows EXCEPT ![f].pc = "release", ![f].error = "send",
                                         ![f].pushes = @ + 1]
  /\ UNCHANGED <<clock, auxAll, phones, customers, subs, tasks, payAll,
                 sessions, pendingTrackingInput, lastOp, cap>>

\* lines 592-596, 600-601, 613: with bytes, sendPhoto is awaited and may
\* throw; with a URL, sendMessage is not awaited; then "delivered" is written
FlowDeliver(f) ==
  /\ flows[f].pc = "deliver"
  /\ \E sent \in BOOLEAN :
       /\ flows[f].shot = "url" => sent
       /\ IF sent
          THEN /\ updateQrCodeStatus(flows[f].qr, "delivered")
               /\ flows' = [flows EXCEPT ![f].pc = "complete", ![f].pushes = @ + 1]
          ELSE /\ updateQrCodeStatus(flows[f].qr, "failed")
               /\ flows' = [flows EXCEPT ![f].pc = "complete", ![f].error = "send",
                                         ![f].pushes = @ + 1]
  /\ UNCHANGED <<clock, auxAll, phones, customers, subs, tasks, payAll,
                 sessions, pendingTrackingInput, lastOp, cap>>

\* a completion that also sets the session's device available
FlowCompleteAndRelease(f) ==
  /\ flows[f].pc = "complete"
  /\ sessions' = [sessions EXCEPT ![flows[f].sess] =
                    [@ EXCEPT !.status = "completed", !.completedAt = now]]
  /\ updateCloudPhoneStatus(flows[f].phone, "available")
  /\ flows' = [flows EXCEPT ![f].pc = "release"]
  /\ UNCHANGED <<clock, auxAll, customers, subs, tasks, payAll,
                 qrCodes, pendingTrackingInput, qrHistory, lastOp, cap>>

\* a completion that leaves a session alone unless it is still active
FlowCompleteIfActive(f) ==
  /\ flows[f].pc = "complete"
  /\ sessions' = [sessions EXCEPT ![flows[f].sess] =
                    IF @.status = "active"
                    THEN [@ EXCEPT !.status = "completed", !.completedAt = now]
                    ELSE @]
  /\ flows' = [flows EXCEPT ![f].pc = "release"]
  /\ UNCHANGED <<clock, auxAll, phones, customers, subs, tasks, payAll,
                 qrCodes, pendingTrackingInput, qrHistory, lastOp, cap>>

\* line 618: completeSession (storage 905-911: status completed and
\* completedAt = now, nothing else)
FlowComplete(f) ==
  /\ flows[f].pc = "complete"
  /\ sessions' = [sessions EXCEPT ![flows[f].sess] =
                    [@ EXCEPT !.status = "completed", !.completedAt = now]]
  /\ flows' = [flows EXCEPT ![f].pc = "release"]
  /\ UNCHANGED <<clock, auxAll, phones, customers, subs, tasks, payAll,
                 qrCodes, pendingTrackingInput, qrHistory, lastOp, cap>>

\* a release that leaves a device alone unless it is marked in_use
FlowReleaseIfInUse(f) ==
  /\ flows[f].pc = "release"
  /\ IF phones[flows[f].phone].status = "in_use"
     THEN updateCloudPhoneStatus(flows[f].phone, "available")
     ELSE UNCHANGED phones
  /\ PoolOp("release", flows[f].phone)
  /\ flows' = [flows EXCEPT ![f].pc = "done"]
  /\ UNCHANGED <<clock, auxAll, customers, subs, tasks, payAll,
                 sessions, qrCodes, pendingTrackingInput, qrHistory, cap>>

\* line 619: updateCloudPhoneStatus(phone.id, "available") (storage
\* 824-827: the status is written whatever it was)
FlowRelease(f) ==
  /\ flows[f].pc = "release"
  /\ updateCloudPhoneStatus(flows[f].phone, "available")
  /\ PoolOp("release", flows[f].phone)
  /\ flows' = [flows EXCEPT ![f].pc = "done"]
  /\ UNCHANGED <<clock, auxAll, customers, subs, tasks, payAll,
                 sessions, qrCodes, pendingTrackingInput, qrHistory, cap>>

\* handleCancelSession, lines 667-674
CancelSessionBegin(t, c) ==
  /\ FreeSlot(t)
  /\ IF ActiveSessionCandidates(c) = {}
     THEN UNCHANGED tasks
     ELSE \E activeSession \in ActiveSessionCandidates(c) :
            SetTask(t, [Idle EXCEPT !.kind = "cancelSession", !.pc = "write", !.cust = c,
                                    !.sess = activeSession,
                                    !.phone = sessions[activeSession].phoneId])
  /\ UNCHANGED <<clock, auxAll, phones, customers, subs, payAll, rentAll>>

\* line 676: updateSessionStatus(activeSession.id, "cancelled")
CancelSessionWrite(t) ==
  /\ At(t, "cancelSession", "write")
  /\ sessions' = [sessions EXCEPT ![tasks[t].sess].status = "cancelled"]
  /\ IF tasks[t].phone # 0
     THEN SetTask(t, [tasks[t] EXCEPT !.pc = "release"])
     ELSE Finish(t)
  /\ UNCHANGED <<clock, auxAll, phones, customers, subs, payAll,
                 qrCodes, flows, pendingTrackingInput, qrHistory, lastOp, cap>>

\* line 678: updateCloudPhoneStatus(activeSession.phoneId, "available")
CancelSessionRelease(t) ==
  /\ At(t, "cancelSession", "release")
  /\ updateCloudPhoneStatus(tasks[t].phone, "available")
  /\ PoolOp("release", tasks[t].phone)
  /\ Finish(t)
  /\ UNCHANGED <<clock, auxAll, customers, subs, payAll,
                 sessions, qrCodes, flows, pendingTrackingInput, qrHistory, cap>>

\* PATCH /api/sessions/:id/cancel, lines 121-122: getSession (a session in
\* any status is accepted)
AdminCancelSessionBegin(t, i) ==
  /\ FreeSlot(t)
  /\ i \in 1..Len(sessions)
  /\ SetTask(t, [Idle EXCEPT !.kind = "adminCancelSession", !.pc = "write",
                             !.cust = sessions[i].customerId, !.sess = i,
                             !.phone = sessions[i].phoneId])
  /\ UNCHANGED <<clock, auxAll, phones, customers, subs, payAll, rentAll>>

\* line 124: updateSessionStatus(session.id, "cancelled")
AdminCancelSessionWrite(t) ==
  /\ At(t, "adminCancelSession", "write")
  /\ sessions' = [sessions EXCEPT ![tasks[t].sess].status = "cancelled"]
  /\ IF tasks[t].phone # 0
     THEN SetTask(t, [tasks[t] EXCEPT !.pc = "release"])
     ELSE Finish(t)
  /\ UNCHANGED <<clock, auxAll, phones, customers, subs, payAll,
                 qrCodes, flows, pendingTrackingInput, qrHistory, lastOp, cap>>

\* lines 125-127: updateCloudPhoneStatus(session.phoneId, "available")
AdminCancelSessionRelease(t) ==
  /\ At(t, "adminCancelSession", "release")
  /\ updateCloudPhoneStatus(tasks[t].phone, "available")
  /\ PoolOp("release", tasks[t].phone)
  /\ Finish(t)
  /\ UNCHANGED <<clock, auxAll, customers, subs, payAll,
                 sessions, qrCodes, flows, pendingTrackingInput, qrHistory, cap>>

\* PATCH /api/customers/:id/block: the administrator sets or clears a
\* customer's block flag (storage.updateCustomerBlocked)
AdminBlockCustomer(c, blocked) ==
  /\ c \in DOMAIN customers
  /\ customers' = [customers EXCEPT ![c].isBlocked = blocked]
  /\ UNCHANGED <<clock, auxAll, phones, subs, tasks, payAll, rentAll>>

\* the statuses PATCH /api/devices/:id/status accepts
DeviceStatuses == {"available", "in_use", "maintenance", "offline"}

\* PATCH /api/devices/:id/status: the administrator sets a device's status
AdminSetDeviceStatus(p, status) ==
  /\ p \in DOMAIN phones
  /\ status \in DeviceStatuses
  /\ phones[p].status # status
  /\ updateCloudPhoneStatus(p, status)
  /\ PoolOp("set", p)
  /\ UNCHANGED <<clock, auxAll, customers, subs, tasks, payAll,
                 sessions, qrCodes, flows, pendingTrackingInput, qrHistory, cap>>

\* The service with paid invoices: every customer c has chosen the plan
\* plans[c] and an asset and has paid the invoice at the processor.  For
\* the customers in active the activation has been handled, while no device
\* was available, and they have been asked for a tracking number (line
\* 515); for the others neither the webhook nor a payment check has been
\* handled yet.  Devices are as synced or set by the administrator.
InitAccounts(CS, PS, plans, active) ==
  /\ now = 0
  /\ ticks = 0
  /\ config = Token
  /\ phones \in [PS -> [status : {"available", "maintenance"}]]
  /\ customers = [c \in CS |-> [isBlocked |-> FALSE, totalSessions |-> 0]]
  /\ subs = [c \in CS |-> IF c \in active
                          THEN storageActivate(NewSubscription(c, plans[c], c), 0)
                          ELSE NewSubscription(c, plans[c], c)]
  /\ invoices = [c \in CS |-> "paid"]
  /\ pendingPlanSelections = [c \in CS |-> "none"]
  /\ planMenuShown = CS
  /\ tasks = [t \in TaskIds |-> Idle]
  /\ activations = [c \in CS |-> IF c \in active THEN 1 ELSE 0]
  /\ assignAttempts = [c \in CS |-> IF c \in active THEN 1 ELSE 0]
  /\ whReturn = [result |-> "none", inv |-> 0, site |-> "none"]
  /\ sessions = <<>>
  /\ qrCodes = <<>>
  /\ flows = <<>>
  /\ pendingTrackingInput = active
  /\ qrHistory = <<>>
  /\ lastOp = NoOp
  /\ cap = CapIdle
  /\ lastQuote = NoQuote
  /\ probe = NoProbe
  /\ vmos = NoVmos
  /\ screenshot = NoShot
  /\ expiredNotice = {}
  /\ listing = NoListing

\* nobody's subscription is active yet
InitPaid(CS, PS, plans) == InitAccounts(CS, PS, plans, {})

\* any of the customers may be past their activation and awaited
InitRace(CS, PS) ==
  \E active \in SUBSET CS : InitAccounts(CS, PS, [c \in CS |-> "2weeks"], active)

\* every customer has paid for the two-week plan
InitLazy(CS, PS) == InitPaid(CS, PS, [c \in CS |-> "2weeks"])

\* every customer has paid for one of the three plans
InitPlans(CS, PS) == \E plans \in [CS -> PlanIds] : InitPaid(CS, PS, plans)

\* time passes: one session duration
TickMinutes ==
  /\ ticks < MaxTicks
  /\ ticks' = ticks + 1
  /\ now' = now + SessionMinutes
  /\ UNCHANGED <<auxAll, phones, customers, subs, tasks, payAll, rentAll>>

\* The service with paid subscriptions: every customer holds one active
\* two-week subscription, activated either while no device was available
\* (no device bound) or while one was (bound; activation leaves the device
\* available).  awaiting = the customers asked for a tracking number.
InitSubscribed(CS, PS, awaiting) ==
  /\ now = 0
  /\ ticks = 0
  /\ config = Token
  /\ phones = [p \in PS |-> [status |-> "available"]]
  /\ customers = [c \in CS |-> [isBlocked |-> FALSE, totalSessions |-> 0]]
  /\ \E bound \in [CS -> PS \cup {0}] :
       subs = [c \in CS |->
                 [storageActivate(NewSubscription(c, "2weeks", c), 0)
                    EXCEPT !.assignedPhoneId = bound[c]]]
  /\ invoices = [c \in CS |-> "paid"]
  /\ pendingPlanSelections = [c \in CS |-> "none"]
  /\ planMenuShown = CS
  /\ tasks = [t \in TaskIds |-> Idle]
  /\ activations = [c \in CS |-> 1]
  /\ assignAttempts = [c \in CS |-> 1]
  /\ whReturn = [result |-> "none", inv |-> 0, site |-> "none"]
  /\ sessions = <<>>
  /\ qrCodes = <<>>
  /\ flows = <<>>
  /\ pendingTrackingInput = awaiting
  /\ qrHistory = <<>>
  /\ lastOp = NoOp
  /\ cap = CapIdle
  /\ lastQuote = NoQuote
  /\ probe = NoProbe
  /\ vmos = NoVmos
  /\ screenshot = NoShot
  /\ expiredNotice = {}
  /\ listing = NoListing

\* nobody has been asked for a tracking number
InitRent(CS, PS) == InitSubscribed(CS, PS, {})

\* every customer has sent /request and been asked for the tracking number
\* (line 515)
InitAwaitingTracking(CS, PS) == InitSubscribed(CS, PS, CS)

\* =================================================================
\* Capture orchestrator (providers/index.ts)
\* =================================================================
\* the names initProviders registers adapters under
ProviderNames == {"GeeLark", "DuoPlus", "VMOS Cloud"}

\* the shell commands captureQrCodeForTracking sends, in order; the fourth
\* types the tracking number
TrackingCommands ==
  <<"input tap 70 1850", "input tap 540 300", "input text ''",
    "input text '<trackingNumber>'", "input keyevent 66", "input tap 540 500">>

Call(fn, arg) == [fn |-> fn, arg |-> arg]

Called(fn) == \E k \in 1..Len(cap.calls) : cap.calls[k].fn = fn

\* captureQrCode / captureQrCodeForTracking, lines 57-61 and 93-97:
\* providers.get(providerName); configured = the adapter is registered
CaptureStart(tracking, providerName, configured) ==
  /\ cap.pc \in {"idle", "done"}
  /\ cap' = IF configured
            THEN [CapIdle EXCEPT !.pc = "status", !.tracking = tracking,
                                 !.provider = providerName, !.registered = TRUE]
            ELSE [CapIdle EXCEPT !.pc = "done", !.tracking = tracking,
                                 !.provider = providerName, !.result = "fail",
                                 !.error = "not configured"]
  /\ UNCHANGED <<clock, auxAll, phones, customers, subs, tasks, payAll,
                 sessions, qrCodes, flows, pendingTrackingInput, qrHistory, lastOp>>

\* ensureDeviceOnline lines 38-40: the first getDeviceStatus
CapStatus ==
  /\ cap.pc = "status"
  /\ LET called == [cap EXCEPT !.calls = Append(@, Call("getDeviceStatus", ""))]
     IN \E outcome \in {"online", "offline", "throws"} :
          cap' = IF outcome = "throws"
                 THEN [called EXCEPT !.pc = "done", !.result = "fail", !.threw = TRUE,
                                     !.error = "exception"]
                 ELSE IF outcome = "online"
                 THEN [called EXCEPT !.pc = "launch", !.firstOnline = "online"]
                 ELSE [called EXCEPT !.pc = "start", !.firstOnline = "offline"]
  /\ UNCHANGED <<clock, auxAll, phones, customers, subs, tasks, payAll,
                 sessions, qrCodes, flows, pendingTrackingInput, qrHistory, lastOp>>

\* ensureDeviceOnline continuing whatever startDevice returned
CapStartDeviceIgnoresResult ==
  /\ cap.pc = "start"
  /\ LET called == [cap EXCEPT !.calls = Append(@, Call("startDevice", ""))]
     IN \E outcome \in {"true", "false", "throws"} :
          cap' = IF outcome = "throws"
                 THEN [called EXCEPT !.pc = "done", !.result = "fail", !.threw = TRUE,
                                     !.error = "exception"]
                 ELSE [called EXCEPT !.pc = "recheck", !.started = outcome]
  /\ UNCHANGED <<clock, auxAll, phones, customers, subs, tasks, payAll,
                 sessions, qrCodes, flows, pendingTrackingInput, qrHistory, lastOp>>

\* ensureDeviceOnline lines 42-47: startDevice; false ends the capture
CapStartDevice ==
  /\ cap.pc = "start"
  /\ LET called == [cap EXCEPT !.calls = Append(@, Call("startDevice", ""))]
     IN \E outcome \in {"true", "false", "throws"} :
          cap' = IF outcome = "throws"
                 THEN [called EXCEPT !.pc = "done", !.result = "fail", !.threw = TRUE,
                                     !.error = "exception"]
                 ELSE IF outcome = "false"
                 THEN [called EXCEPT !.pc = "done", !.result = "fail", !.started = "false",
                                     !.error = "could not be started"]
                 ELSE [called EXCEPT !.pc = "recheck", !.started = "true"]
  /\ UNCHANGED <<clock, auxAll, phones, customers, subs, tasks, payAll,
                 sessions, qrCodes, flows, pendingTrackingInput, qrHistory, lastOp>>

\* ensureDeviceOnline going on to launchApp whatever the re-check reported
CapRecheckIgnoresResult ==
  /\ cap.pc = "recheck"
  /\ LET called == [cap EXCEPT !.calls = Append(@, Call("getDeviceStatus", ""))]
     IN \E outcome \in {"online", "offline", "throws"} :
          cap' = IF outcome = "throws"
                 THEN [called EXCEPT !.pc = "done", !.result = "fail", !.threw = TRUE,
                                     !.error = "exception"]
                 ELSE [called EXCEPT !.pc = "launch", !.secondOnline = outcome]
  /\ UNCHANGED <<clock, auxAll, phones, customers, subs, tasks, payAll,
                 sessions, qrCodes, flows, pendingTrackingInput, qrHistory, lastOp>>

\* ensureDeviceOnline lines 49-52: getDeviceStatus after the 15 s wait
CapRecheck ==
  /\ cap.pc = "recheck"
  /\ LET called == [cap EXCEPT !.calls = Append(@, Call("getDeviceStatus", ""))]
     IN \E outcome \in {"online", "offline", "throws"} :
          cap' = IF outcome = "throws"
                 THEN [called EXCEPT !.pc = "done", !.result = "fail", !.threw = TRUE,
                                     !.error = "exception"]
                 ELSE IF outcome = "online"
                 THEN [called EXCEPT !.pc = "launch", !.secondOnline = "online"]
                 ELSE [called EXCEPT !.pc = "done", !.result = "fail",
                                     !.secondOnline = "offline",
                                     !.error = "not online yet"]
  /\ UNCHANGED <<clock, auxAll, phones, customers, subs, tasks, payAll,
                 sessions, qrCodes, flows, pendingTrackingInput, qrHistory, lastOp>>

\* the same step outside the try block of lines 63-90 and 99-148: an
\* exception of launchApp reaches the caller
CapLaunchOutsideTry ==
  /\ cap.pc = "launch"
  /\ LET called == [cap EXCEPT !.calls = Append(@, Call("launchApp", "de.dhl.paket"))]
     IN \E outcome \in {"true", "false", "throws"} :
          cap' = IF outcome = "throws"
                 THEN [called EXCEPT !.pc = "done", !.result = "raised", !.threw = TRUE]
                 ELSE IF outcome = "false"
                 THEN [called EXCEPT !.pc = "done", !.result = "fail", !.launched = "false",
                                     !.error = "launch failed"]
                 ELSE IF cap.tracking
                 THEN [called EXCEPT !.pc = "command", !.step = 1, !.launched = "true"]
                 ELSE [called EXCEPT !.pc = "screenshot", !.launched = "true"]
  /\ UNCHANGED <<clock, auxAll, phones, customers, subs, tasks, payAll,
                 sessions, qrCodes, flows, pendingTrackingInput, qrHistory, lastOp>>

\* the same step going on to the next call whatever launchApp returned
CapLaunchIgnoresResult ==
  /\ cap.pc = "launch"
  /\ LET called == [cap EXCEPT !.calls = Append(@, Call("launchApp", "de.dhl.paket"))]
     IN \E outcome \in {"true", "false", "throws"} :
          cap' = IF outcome = "throws"
                 THEN [called EXCEPT !.pc = "done", !.result = "fail", !.threw = TRUE,
                                     !.error = "exception"]
                 ELSE IF cap.tracking
                 THEN [called EXCEPT !.pc = "command", !.step = 1, !.launched = outcome]
                 ELSE [called EXCEPT !.pc = "screenshot", !.launched = outcome]
  /\ UNCHANGED <<clock, auxAll, phones, customers, subs, tasks, payAll,
                 sessions, qrCodes, flows, pendingTrackingInput, qrHistory, lastOp>>

\* lines 70-73 and 106-109: launchApp(deviceId, DHL_PAKET_PACKAGE); an
\* exception ends the capture in the catch block (87-90, 145-148)
CapLaunch ==
  /\ cap.pc = "launch"
  /\ LET called == [cap EXCEPT !.calls = Append(@, Call("launchApp", "de.dhl.paket"))]
     IN \E outcome \in {"true", "false", "throws"} :
          cap' = IF outcome = "throws"
                 THEN [called EXCEPT !.pc = "done", !.result = "fail", !.threw = TRUE,
                                     !.error = "exception"]
                 ELSE IF outcome = "false"
                 THEN [called EXCEPT !.pc = "done", !.result = "fail", !.launched = "false",
                                     !.error = "launch failed"]
                 ELSE IF cap.tracking
                 THEN [called EXCEPT !.pc = "command", !.step = 1, !.launched = "true"]
                 ELSE [called EXCEPT !.pc = "screenshot", !.launched = "true"]
  /\ UNCHANGED <<clock, auxAll, phones, customers, subs, tasks, payAll,
                 sessions, qrCodes, flows, pendingTrackingInput, qrHistory, lastOp>>

\* the next executeCommand ending the capture when the command failed
CapCommandAbortsOnFailure ==
  /\ cap.pc = "command"
  /\ LET called == [cap EXCEPT !.calls =
                      Append(@, Call("executeCommand", TrackingCommands[cap.step]))]
     IN \E outcome \in {"success", "failure", "throws"} :
          cap' = IF outcome = "throws"
                 THEN [called EXCEPT !.pc = "done", !.result = "fail", !.threw = TRUE,
                                     !.error = "exception"]
                 ELSE IF outcome = "failure"
                 THEN [called EXCEPT !.pc = "done", !.result = "fail",
                                     !.commandFailed = TRUE, !.error = "command"]
                 ELSE IF cap.step < Len(TrackingCommands)
                 THEN [called EXCEPT !.step = cap.step + 1]
                 ELSE [called EXCEPT !.pc = "screenshot"]
  /\ UNCHANGED <<clock, auxAll, phones, customers, subs, tasks, payAll,
                 sessions, qrCodes, flows, pendingTrackingInput, qrHistory, lastOp>>

\* lines 114-133: the next executeCommand; its result ({success, output} or
\* {success: false, error}) is not looked at
CapCommand ==
  /\ cap.pc = "command"
  /\ LET called == [cap EXCEPT !.calls =
                      Append(@, Call("executeCommand", TrackingCommands[cap.step]))]
     IN \E outcome \in {"success", "failure", "throws"} :
          LET seen == [called EXCEPT !.commandFailed = @ \/ outcome = "failure"]
          IN cap' = IF outcome = "throws"
                    THEN [called EXCEPT !.pc = "done", !.result = "fail", !.threw = TRUE,
                                        !.error = "exception"]
                    ELSE IF cap.step < Len(TrackingCommands)
                    THEN [seen EXCEPT !.step = cap.step + 1]
                    ELSE [seen EXCEPT !.pc = "screenshot"]
  /\ UNCHANGED <<clock, auxAll, phones, customers, subs, tasks, payAll,
                 sessions, qrCodes, flows, pendingTrackingInput, qrHistory, lastOp>>

\* lines 78-86 and 136-144: takeScreenshot, whose result is returned
CapScreenshot ==
  /\ cap.pc = "screenshot"
  /\ LET called == [cap EXCEPT !.calls = Append(@, Call("takeScreenshot", ""))]
     IN \E outcome \in ShotResults \cup {"throws"} :
          cap' = IF outcome = "throws"
                 THEN [called EXCEPT !.pc = "done", !.result = "fail", !.threw = TRUE,
                                     !.error = "exception"]
                 ELSE [called EXCEPT !.pc = "done", !.result = outcome, !.shot = outcome,
                                     !.error = IF outcome = "fail" THEN "adapter" ELSE "none"]
  /\ UNCHANGED <<clock, auxAll, phones, customers, subs, tasks, payAll,
                 sessions, qrCodes, flows, pendingTrackingInput, qrHistory, lastOp>>


\* ------------------------------------------------- the provider adapters
Adapters == {"GeeLark", "DuoPlus", "VMOS Cloud"}

\* how a fetch of an adapter's request() can end: rejected (transport), a
\* non-2xx response, a 2xx body carrying an application error code and no
\* data, or a 2xx body with data
ResponseKinds == {"transport", "http", "appError", "ok"}

\* the answers to the request getDeviceStatus makes for deviceId: GeeLark
\* and VMOS ask for the one device (GET /devices/<id>, instance/detail),
\* DuoPlus for the list of devices (cloudPhone/list)
Responses_getDeviceStatus(adapter, deviceId) ==
  [kind : {"transport", "http", "appError"}, devices : {NoDevices}]
  \cup [kind : {"ok"},
        devices : IF adapter = "DuoPlus"
                  THEN [DeviceIds -> NativeStatuses(adapter) \cup {"absent"}]
                  ELSE {[NoDevices EXCEPT ![deviceId] = st] :
                          st \in NativeStatuses(adapter) \cup {"absent"}}]

\* VMOSProvider.ensureToken: the cached token, a refreshed one, or the throw
\* of a failed token request; the other adapters have no token request
TokenOutcomes(adapter) ==
  IF adapter = "VMOS Cloud" THEN {"cached", "refreshed", "failed"} ELSE {"none"}

\* GeeLarkProvider.request throws on a rejected fetch and on !res.ok only
GeeLarkRequestThrows(response) == response.kind \in {"transport", "http"}
\* DuoPlusProvider.request and VMOSProvider.request throw also on code !== 200
CodeCheckedRequestThrows(response) == response.kind \in {"transport", "http", "appError"}

\* DuoPlusProvider.mapStatus
DuoPlusMapStatus(status) ==
  CASE status = "1" -> "online"
    [] status \in {"2", "0", "3", "4"} -> "offline"
    [] status \in {"10", "11"} -> "starting"
    [] OTHER -> "unknown"

ErrorStatus == [online |-> FALSE, status |-> "error", threw |-> FALSE]

\* GeeLarkProvider.getDeviceStatus
GeeLarkGetDeviceStatus(deviceId, response) ==
  IF GeeLarkRequestThrows(response) THEN ErrorStatus
  ELSE LET status == response.devices[deviceId]
       IN [online |-> status \in {"running", "online"},
           status |-> IF status = "absent" THEN "unknown" ELSE status,
           threw |-> FALSE]

\* DuoPlusProvider.getDeviceStatus over listDevices, which returns [] when
\* its request throws
DuoPlusListDevices(response) ==
  IF CodeCheckedRequestThrows(response) THEN NoDevices
  ELSE [d \in DeviceIds |->
          IF response.devices[d] = "absent" THEN "absent"
          ELSE DuoPlusMapStatus(response.devices[d])]
DuoPlusGetDeviceStatus(deviceId, response) ==
  LET device == DuoPlusListDevices(response)[deviceId]
  IN IF device = "absent"
     THEN [online |-> FALSE, status |-> "not_found", threw |-> FALSE]
     ELSE [online |-> device = "online", status |-> device, threw |-> FALSE]

\* VMOSProvider.getDeviceStatus (padStatus only; the status field of the
\* detail answer is left out)
VMOSGetDeviceStatus(deviceId, token, response) ==
  IF token = "failed" \/ CodeCheckedRequestThrows(response) THEN ErrorStatus
  ELSE LET padStatus == response.devices[deviceId]
       IN [online |-> padStatus = "10",
           status |-> IF padStatus = "absent" THEN "unknown" ELSE padStatus,
           threw |-> FALSE]

getDeviceStatus(adapter, deviceId, token, response) ==
  CASE adapter = "GeeLark" -> GeeLarkGetDeviceStatus(deviceId, response)
    [] adapter = "DuoPlus" -> DuoPlusGetDeviceStatus(deviceId, response)
    [] adapter = "VMOS Cloud" -> VMOSGetDeviceStatus(deviceId, token, response)

\* provider.getDeviceStatus(deviceId) is called
GetDeviceStatusCall(adapter, deviceId) ==
  /\ probe.pc \in {"idle", "returned"}
  /\ probe' = [NoProbe EXCEPT !.pc = "called", !.adapter = adapter, !.deviceId = deviceId]
  /\ UNCHANGED <<clock, lastQuote, auxNew, phones, customers, subs, tasks, payAll, rentAll>>

\* the provider answers (for VMOS, after the token is ensured; a failed
\* token request sends nothing further) and the call returns
GetDeviceStatusReturn(token, response) ==
  /\ probe.pc = "called"
  /\ token \in TokenOutcomes(probe.adapter)
  /\ response \in IF token = "failed" THEN {NoResponse}
                  ELSE Responses_getDeviceStatus(probe.adapter, probe.deviceId)
  /\ probe' = [probe EXCEPT !.pc = "returned", !.token = token, !.response = response,
                            !.result = getDeviceStatus(probe.adapter, probe.deviceId,
                                                       token, response)]
  /\ UNCHANGED <<clock, lastQuote, auxNew, phones, customers, subs, tasks, payAll, rentAll>>

\* ------------------------------------------- the VMOS adapter's session token
\* ensureToken line 62: this.stsToken && Date.now() < this.tokenExpiry
TokenValid == vmos.stsToken # 0 /\ now < vmos.tokenExpiry

\* the calls of request() waiting for the answer to their token request
TokenRequestsInFlight == {k \in TaskIds : vmos.calls[k].pc = "tokenFetch"}

\* request() is entered (line 97) and ensureToken runs up to its first
\* await: with a valid cached token it returns it; otherwise it sends a token
\* request, whose number stands for the token it will return
VmosRequestBegin(k) ==
  /\ vmos.calls[k].pc \in {"idle", "done", "failed"}
  /\ IF TokenValid
     THEN vmos' = [vmos EXCEPT !.calls[k] = [pc |-> "fetch", token |-> vmos.stsToken]]
     ELSE /\ vmos.refreshes < MaxRefreshes
          /\ vmos' = [vmos EXCEPT !.refreshes = @ + 1,
                                  !.calls[k] = [pc |-> "tokenFetch", token |-> vmos.refreshes + 1]]
  /\ UNCHANGED <<clock, lastQuote, probe, screenshot, expiredNotice, listing, phones, customers, subs, tasks, payAll, rentAll>>

\* lines 76-89: the token request is answered; on success the token and its
\* expiry are stored and returned, otherwise ensureToken throws (line 92)
VmosTokenAnswer(k, ok) ==
  /\ vmos.calls[k].pc = "tokenFetch"
  /\ IF ok
     THEN vmos' = [vmos EXCEPT !.stsToken = vmos.calls[k].token,
                               !.tokenExpiry = now + TokenLifetimeMinutes,
                               !.calls[k].pc = "fetch"]
     ELSE vmos' = [vmos EXCEPT !.calls[k] = [pc |-> "failed", token |-> 0]]
  /\ UNCHANGED <<clock, lastQuote, probe, screenshot, expiredNotice, listing, phones, customers, subs, tasks, payAll, rentAll>>

\* lines 101-121: the provider request is made with the token and answered
VmosRequestEnd(k) ==
  /\ vmos.calls[k].pc = "fetch"
  /\ vmos' = [vmos EXCEPT !.calls[k].pc = "done"]
  /\ UNCHANGED <<clock, lastQuote, probe, screenshot, expiredNotice, listing, phones, customers, subs, tasks, payAll, rentAll>>

\* time passes: by the lifetime of a cached token
TickTokenLifetime ==
  /\ ticks < MaxTicks
  /\ ticks' = ticks + 1
  /\ now' = now + TokenLifetimeMinutes
  /\ UNCHANGED <<auxAll, phones, customers, subs, tasks, payAll, rentAll>>

\* ------------------------------------------------------------ takeScreenshot
\* The provider's answers during one takeScreenshot.  request: how the fetch
\* of the adapter's request() ends (for VMOS "token" is a failed token
\* request).  body: what a 2xx answer holds.
\*   GeeLark: a non-JSON body of some bytes or of none, a JSON body with
\*     url / image_url, any other JSON body;
\*   DuoPlus: the output of `cat .. | base64`: more than 100 characters that
\*     decode to bytes, more than 100 characters with no base64 content,
\*     or at most 100 characters; screencap is how the first command ended;
\*   VMOS: data with imageUrl / url or without, with or without taskId, and
\*     how the download of the URL ends.
ShotFailures(adapter) ==
  [request : IF adapter = "VMOS Cloud" THEN {"token", "transport", "http", "appError"}
             ELSE IF adapter = "DuoPlus" THEN {"transport", "http", "appError"}
             ELSE {"transport", "http"},
   body : {"none"}, taskId : {FALSE}, download : {"none"},
   screencap : IF adapter = "DuoPlus" THEN {"ok", "failed"} ELSE {"none"}]
ShotAnswers(adapter) ==
  CASE adapter = "GeeLark" ->
         [request : {"ok"}, body : {"bytes", "noBytes", "url", "other"},
          taskId : {FALSE}, download : {"none"}, screencap : {"none"}]
    [] adapter = "DuoPlus" ->
         [request : {"ok"}, body : {"base64", "undecodable", "short"},
          taskId : {FALSE}, download : {"none"}, screencap : {"ok", "failed"}]
    [] adapter = "VMOS Cloud" ->
         [request : {"ok"}, body : {"url"}, taskId : BOOLEAN,
          download : {"bytes", "noBytes", "notOk", "threw"}, screencap : {"none"}]
         \cup [request : {"ok"}, body : {"other"}, taskId : BOOLEAN,
               download : {"none"}, screencap : {"none"}]
    [] OTHER -> {}
ShotResponses(adapter) == ShotFailures(adapter) \cup ShotAnswers(adapter)

ShotFailure == [NoShotResult EXCEPT !.error = TRUE]
ShotData(bytes) == [NoShotResult EXCEPT !.success = TRUE, !.imageData = bytes]
ShotUrl(url) == [NoShotResult EXCEPT !.success = TRUE, !.imageUrl = url]

\* Buffer.from of a body: a buffer of no bytes for a body of none
BufferFrom(body) == IF body \in {"bytes", "base64"} THEN "bytes" ELSE "empty"

\* GeeLarkProvider.takeScreenshot
GeeLarkTakeScreenshot(response) ==
  IF response.request # "ok" THEN ShotFailure
  ELSE IF response.body \in {"bytes", "noBytes"} THEN ShotData(BufferFrom(response.body))
  ELSE IF response.body = "url" THEN ShotUrl("url")
  ELSE ShotFailure

\* DuoPlusProvider.executeCommand for the base64 command: success and output
DuoPlusBase64Command(response) ==
  IF response.request # "ok" THEN [success |-> FALSE, output |-> "none"]
  ELSE [success |-> TRUE, output |-> response.body]
\* DuoPlusProvider.takeScreenshot: the result of the screencap command is
\* only logged; b64Result.output.length > 100
DuoPlusTakeScreenshot(response) ==
  LET b64Result == DuoPlusBase64Command(response)
  IN IF b64Result.success /\ b64Result.output \in {"base64", "undecodable"}
     THEN ShotData(BufferFrom(b64Result.output))
     ELSE ShotFailure

\* the same reporting success whenever the answer named a URL, whether or
\* not the download gave anything
VMOSTakeScreenshotUncheckedDownload(response) ==
  IF response.request # "ok" THEN ShotFailure
  ELSE IF response.body = "url" /\ response.download \in {"bytes", "noBytes"}
  THEN [ShotData(BufferFrom(response.download)) EXCEPT !.imageUrl = "url"]
  ELSE IF response.body = "url" /\ response.download = "threw" THEN ShotUrl("url")
  ELSE IF response.body = "url" THEN [NoShotResult EXCEPT !.success = TRUE]
  ELSE IF response.taskId THEN ShotUrl("pending")
  ELSE ShotFailure

\* VMOSProvider.takeScreenshot
VMOSTakeScreenshot(response) ==
  IF response.request # "ok" THEN ShotFailure
  ELSE IF response.body = "url" /\ response.download \in {"bytes", "noBytes"}
  THEN [ShotData(BufferFrom(response.download)) EXCEPT !.imageUrl = "url"]
  ELSE IF response.body = "url" /\ response.download = "threw" THEN ShotUrl("url")
  ELSE IF response.taskId THEN ShotUrl("pending")
  ELSE ShotFailure

takeScreenshot(adapter, response) ==
  CASE adapter = "GeeLark" -> GeeLarkTakeScreenshot(response)
    [] adapter = "DuoPlus" -> DuoPlusTakeScreenshot(response)
    [] adapter = "VMOS Cloud" -> VMOSTakeScreenshot(response)

\* provider.takeScreenshot(deviceId) is called
TakeScreenshotCall(adapter) ==
  /\ screenshot.pc \in {"idle", "returned"}
  /\ screenshot' = [NoShot EXCEPT !.pc = "called", !.adapter = adapter]
  /\ UNCHANGED <<clock, lastQuote, probe, vmos, expiredNotice, listing, phones, customers, subs, tasks, payAll, rentAll>>

\* the provider answers and the call returns
TakeScreenshotReturn(response) ==
  /\ screenshot.pc = "called"
  /\ response \in ShotResponses(screenshot.adapter)
  /\ screenshot' = [screenshot EXCEPT !.pc = "returned", !.response = response,
                                      !.result = takeScreenshot(screenshot.adapter, response)]
  /\ UNCHANGED <<clock, lastQuote, probe, vmos, expiredNotice, listing, phones, customers, subs, tasks, payAll, rentAll>>

\* ------------------------------------------- mapStatus and listDevices
ProviderDeviceStatuses == {"online", "offline", "starting", "stopping", "unknown"}

\* String.prototype.toLowerCase on the strings of JsonStatuses
ToLowerCase(s) == IF s = "Online" THEN "online" ELSE s

\* GeeLarkProvider.mapStatus: switch (status?.toLowerCase()).  For undefined
\* and null the optional chain gives undefined; for any other value that is
\* not a string, toLowerCase is not a function and the call throws
GeeLarkMapStatus(status) ==
  IF status.type = "missing" THEN "unknown"
  ELSE IF status.type # "string" THEN "throws"
  ELSE LET lower == ToLowerCase(status.val)
       IN CASE lower \in {"running", "online", "on"} -> "online"
            [] lower \in {"stopped", "offline", "off"} -> "offline"
            [] lower \in {"starting", "booting"} -> "starting"
            [] lower = "stopping" -> "stopping"
            [] OTHER -> "unknown"

\* VMOSProvider.mapStatus: numbers only
VMOSMapStatus(status) ==
  IF status.type = "number"
  THEN CASE status.val = "10" -> "online"
         [] status.val \in {"20", "0"} -> "offline"
         [] status.val = "5" -> "starting"
         [] status.val = "15" -> "stopping"
         [] OTHER -> "unknown"
  ELSE "unknown"

\* mapStatus of each adapter; the switch of DuoPlus compares with ===, so
\* only numbers match a case
mapStatus(adapter, status) ==
  CASE adapter = "GeeLark" -> GeeLarkMapStatus(status)
    [] adapter = "DuoPlus" -> IF status.type = "number"
                              THEN DuoPlusMapStatus(status.val)
                              ELSE "unknown"
    [] adapter = "VMOS Cloud" -> VMOSMapStatus(status)

\* how the list request of listDevices can end; VMOS first ensures its token
ListKinds(adapter) ==
  ResponseKinds \cup (IF adapter = "VMOS Cloud" THEN {"tokenFailed"} ELSE {})

\* the status fields of the devices in an answer
StatusLists == UNION {[1..n -> JsonStatuses] : n \in 0..MaxListed}

\* listDevices of each adapter: the whole body is inside try/catch, which
\* returns []; a body without a list gives [] as well
listDevices(adapter, kind, statuses) ==
  LET requestThrows == \/ kind = "tokenFailed"
                       \/ IF adapter = "GeeLark"
                          THEN GeeLarkRequestThrows([kind |-> kind])
                          ELSE CodeCheckedRequestThrows([kind |-> kind])
      mapped == [i \in 1..Len(statuses) |-> mapStatus(adapter, statuses[i])]
  IN IF requestThrows \/ kind = "appError" THEN [threw |-> FALSE, devices |-> <<>>]
     ELSE IF \E i \in 1..Len(statuses) : mapped[i] = "throws"
     THEN [threw |-> FALSE, devices |-> <<>>]
     ELSE [threw |-> FALSE, devices |-> mapped]

\* mapStatus is applied to a status field
MapStatusCall(adapter, status) ==
  /\ listing.pc # "listing"
  /\ listing' = [NoListing EXCEPT !.pc = "mapped", !.adapter = adapter,
                                  !.input = status,
                                  !.mapped = mapStatus(adapter, status)]
  /\ UNCHANGED <<clock, lastQuote, probe, vmos, screenshot, expiredNotice,
                 phones, customers, subs, tasks, payAll, rentAll>>

\* provider.listDevices() is called
ListDevicesCall(adapter) ==
  /\ listing.pc # "listing"
  /\ listing' = [NoListing EXCEPT !.pc = "listing", !.adapter = adapter]
  /\ UNCHANGED <<clock, lastQuote, probe, vmos, screenshot, expiredNotice,
                 phones, customers, subs, tasks, payAll, rentAll>>

\* the provider answers and the call returns
ListDevicesReturn(kind, statuses) ==
  /\ listing.pc = "listing"
  /\ kind \in ListKinds(listing.adapter)
  /\ kind # "ok" => statuses = <<>>
  /\ LET result == listDevices(listing.adapter, kind, statuses)
     IN listing' = [listing EXCEPT !.pc = "listed", !.kind = kind,
                                   !.statuses = statuses,
                                   !.devices = result.devices,
                                   !.threw = result.threw]
  /\ UNCHANGED <<clock, lastQuote, probe, vmos, screenshot, expiredNotice,
                 phones, customers, subs, tasks, payAll, rentAll>>
PayStart(t) ==
  \/ \E c \in DOMAIN customers : Subscribe(t, c)
  \/ \E c \in DOMAIN customers, plan \in ScenarioPlans : PlanSelection(t, c, plan)
  \/ \E c \in DOMAIN customers : AssetSelectionBegin(t, c)
  \/ \E c \in DOMAIN customers : CheckPaymentBegin(t, c)
  \/ \E c \in DOMAIN customers : CancelPendingBegin(t, c)
  \/ \E body \in Bodies, signature \in Signatures : WebhookBegin(t, body, signature)
  \/ \E s \in SubIds : AdminCancelSubscription(t, s)

PayStep(t) ==
  \/ AssetCreateInvoice(t)
  \/ AssetGetPending(t)
  \/ AssetCancelOld(t)
  \/ AssetCreateSub(t)
  \/ CheckGetInvoice(t)
  \/ CheckCancelExpired(t)
  \/ CancelPendingWrite(t)
  \/ ActivateWrite(t)
  \/ ActivateGetPhones(t)
  \/ ActivateAssign(t)

PayEnv ==
  \/ \E i \in SubIds : PayInvoice(i)
  \/ \E i \in SubIds : ExpireInvoice(i)

\* One customer; request handlers overlap at their awaits.
NextPay ==
  \/ \E t \in TaskIds : PayStart(t)
  \/ \E t \in TaskIds : PayStep(t)
  \/ PayEnv

SpecPay == InitFor(Payer, Phones, MaxSubs) /\ [][NextPay]_vars

\* One customer; each request handler finishes before the next one starts.
NextPaySeq ==
  \/ \E t \in TaskIds : AllIdle /\ PayStart(t)
  \/ \E t \in TaskIds : PayStep(t)
  \/ PayEnv

SpecPaySeq == InitFor(Payer, Phones, MaxSubs) /\ [][NextPaySeq]_vars

\* The same, one after another, with a rival customer and a second device,
\* and with time passing.
NextPayCrowd ==
  \/ NextPaySeq
  \/ TickDays

SpecPayCrowd == InitFor(Crowd, Pool, MaxSubs) /\ [][NextPayCrowd]_vars
\* One customer, handlers one after another, with the administrator's
\* activate route and time passing.
NextAdmin ==
  \/ NextPaySeq
  \/ \E t \in TaskIds, s \in SubIds : AllIdle /\ AdminActivateSubscription(t, s)
  \/ TickDays

SpecAdmin == InitFor(Payer, Phones, MaxSubs) /\ [][NextAdmin]_vars

\* Subscribing with the processor's rate table given: one customer choosing
\* a plan and an asset, one handler after another.
NextQuote ==
  \/ \E t \in TaskIds, c \in DOMAIN customers : AllIdle /\ Subscribe(t, c)
  \/ \E t \in TaskIds, c \in DOMAIN customers, plan \in ScenarioPlans :
       AllIdle /\ PlanSelection(t, c, plan)
  \/ \E t \in TaskIds, c \in DOMAIN customers : AllIdle /\ AssetSelectionBegin(t, c)
  \/ \E t \in TaskIds, asset \in QuoteAssets, created \in BOOLEAN :
       \E response \in Responses(asset) : AssetQuoteInvoice(t, asset, response, created)
  \/ \E t \in TaskIds : AssetGetPending(t)
  \/ \E t \in TaskIds : AssetCancelOld(t)
  \/ \E t \in TaskIds : AssetCreateSub(t)

SpecQuote == InitFor(Payer, Phones, MaxSubs) /\ [][NextQuote]_vars


\* Payment beside asset selection: one customer's plan and asset
\* selections, the payment of an issued invoice at the processor, and the
\* processor's correctly signed invoice_paid deliveries, overlapping at the
\* awaits.  Every handler that has started keeps being run (each await
\* returns); the customer and the processor are not obliged to act.
NextGap ==
  \/ \E t \in TaskIds, c \in DOMAIN customers, plan \in ScenarioPlans :
       PlanSelection(t, c, plan)
  \/ \E t \in TaskIds, c \in DOMAIN customers : AssetSelectionBegin(t, c)
  \/ \E t \in TaskIds, body \in Bodies :
       /\ body.update_type = "invoice_paid"
       /\ WebhookBegin(t, body, ExpectedSignature(Token, body))
  \/ \E i \in SubIds : PayInvoice(i)
  \/ \E t \in TaskIds : AssetCreateInvoice(t)
  \/ \E t \in TaskIds : AssetGetPending(t)
  \/ \E t \in TaskIds : AssetCancelOld(t)
  \/ \E t \in TaskIds : AssetCreateSub(t)
  \/ \E t \in TaskIds : ActivateWrite(t)
  \/ \E t \in TaskIds : ActivateGetPhones(t)
  \/ \E t \in TaskIds : ActivateAssign(t)

GapStep(t) ==
  \/ AssetCreateInvoice(t)
  \/ AssetGetPending(t)
  \/ AssetCancelOld(t)
  \/ AssetCreateSub(t)
  \/ ActivateWrite(t)
  \/ ActivateGetPhones(t)
  \/ ActivateAssign(t)

SpecGapFair ==
  /\ InitAwaitingAsset(Payer, Phones, MaxSubs)
  /\ [][NextGap]_vars
  /\ \A t \in TaskIds : WF_vars(GapStep(t))

RentStart(t) ==
  \/ \E c \in DOMAIN customers : QrRequest(t, c)
  \/ \E c \in DOMAIN customers, valid \in BOOLEAN : TrackingMessage(t, c, valid)
  \/ \E c \in DOMAIN customers : CancelSessionBegin(t, c)

RentStep(t, maxSessions) ==
  \/ SubmitGetPhone(t)
  \/ SubmitAssign(t)
  \/ SubmitCreateSession(t, maxSessions)
  \/ SubmitIncrement(t)
  \/ SubmitCreateQr(t)
  \/ SubmitInUse(t)
  \/ SubmitStart(t)
  \/ CancelSessionWrite(t)
  \/ CancelSessionRelease(t)

FlowStep(f) ==
  \/ FlowCapture(f)
  \/ FlowDeliver(f)
  \/ FlowComplete(f)
  \/ FlowRelease(f)

\* Request handlers run one after another; the detached capture flows run
\* beside them.
NextRent(maxSessions) ==
  \/ \E t \in TaskIds : AllIdle /\ RentStart(t)
  \/ \E t \in TaskIds : RentStep(t, maxSessions)
  \/ \E f \in 1..Len(flows) : FlowStep(f)

SpecRent == InitRent(Customers, Phones) /\ [][NextRent(MaxSessions)]_vars

\* One customer, with time passing between the steps.
NextRentClock ==
  \/ NextRent(MaxSessions)
  \/ TickMinutes

SpecRentClock == InitRent(Payer, Phones) /\ [][NextRentClock]_vars

\* The same with a rival customer, more sessions, and time passing.
NextRentCrowd ==
  \/ NextRent(CrowdSessions)
  \/ TickMinutes

SpecRentCrowd == InitRent(Crowd, Phones) /\ [][NextRentCrowd]_vars

\* One customer, a second session, and the administrator's session cancel.
NextRentAdmin ==
  \/ NextRent(CrowdSessions)
  \/ \E t \in TaskIds, i \in 1..CrowdSessions : AllIdle /\ AdminCancelSessionBegin(t, i)
  \/ \E t \in TaskIds : AdminCancelSessionWrite(t)
  \/ \E t \in TaskIds : AdminCancelSessionRelease(t)

SpecRentAdmin == InitRent(Payer, Phones) /\ [][NextRentAdmin]_vars

\* One customer; every handler that has started and every detached flow
\* keeps being run by the event loop (each await returns).
SpecRentFair ==
  /\ InitRent(Payer, Phones)
  /\ [][NextRent(MaxSessions)]_vars
  /\ \A t \in TaskIds : WF_vars(RentStep(t, MaxSessions))
  /\ \A f \in 1..MaxSessions : WF_vars(f \in 1..Len(flows) /\ FlowStep(f))

\* From payment to the first capture: one customer whose paid invoice is
\* activated by the webhook or a payment check, the administrator's device
\* status route, and the customer's capture requests, one after another.
NextLazy ==
  \/ \E t \in TaskIds, body \in Bodies, signature \in Signatures :
       AllIdle /\ WebhookBegin(t, body, signature)
  \/ \E t \in TaskIds, c \in DOMAIN customers : AllIdle /\ CheckPaymentBegin(t, c)
  \/ \E t \in TaskIds : CheckGetInvoice(t)
  \/ \E t \in TaskIds : ActivateWrite(t)
  \/ \E t \in TaskIds : ActivateGetPhones(t)
  \/ \E t \in TaskIds : ActivateAssign(t)
  \/ \E p \in DOMAIN phones, status \in DeviceStatuses :
       AllIdle /\ AdminSetDeviceStatus(p, status)
  \/ NextRent(1)

SpecLazy == InitLazy(Payer, Phones) /\ [][NextLazy]_vars

\* The same with a second device, which carries a delivery identity.
SpecLazyPool == InitLazy(Payer, Pool) /\ [][NextLazy]_vars

\* Customers who have paid for plans of their choice: the webhook and the
\* payment check activate the subscriptions, one handler after another,
\* with time passing between them.
NextPlans ==
  \/ \E t \in TaskIds, body \in Bodies, signature \in Signatures :
       AllIdle /\ WebhookBegin(t, body, signature)
  \/ \E t \in TaskIds, c \in DOMAIN customers : AllIdle /\ CheckPaymentBegin(t, c)
  \/ \E t \in TaskIds : CheckGetInvoice(t)
  \/ \E t \in TaskIds : ActivateWrite(t)
  \/ \E t \in TaskIds : ActivateGetPhones(t)
  \/ \E t \in TaskIds : ActivateAssign(t)
  \/ AllIdle /\ TickDays

SpecPlans == InitPlans(Crowd, Phones) /\ [][NextPlans]_vars

\* From payment to capture requests with subscriptions ending: one customer
\* who has paid, or whose subscription is active already; the administrator
\* cancels subscriptions between handlers, and plan durations pass.
NextExpiry ==
  \/ \E t \in TaskIds, body \in Bodies, signature \in Signatures :
       AllIdle /\ WebhookBegin(t, body, signature)
  \/ \E t \in TaskIds : ActivateWrite(t)
  \/ \E t \in TaskIds : ActivateGetPhones(t)
  \/ \E t \in TaskIds : ActivateAssign(t)
  \/ \E t \in TaskIds, s \in DOMAIN subs : AllIdle /\ AdminCancelSubscription(t, s)
  \/ TickDays
  \/ NextRent(1)

InitExpiry == InitLazy(Payer, Phones) \/ InitRent(Payer, Phones)

SpecExpiry == InitExpiry /\ [][NextExpiry]_vars

\* Customers whose plan selections wait for their asset, or who have been
\* asked for a tracking number: asset callbacks and text messages arrive
\* while earlier handlers are still at their awaits.  The detached capture
\* flows are left out: they touch neither flag.
NextFlags ==
  \/ \E t \in TaskIds, c \in DOMAIN customers : AssetSelectionBegin(t, c)
  \/ \E t \in TaskIds : AssetCreateInvoice(t)
  \/ \E t \in TaskIds : AssetGetPending(t)
  \/ \E t \in TaskIds : AssetCreateSub(t)
  \/ \E t \in TaskIds, c \in DOMAIN customers, valid \in BOOLEAN :
       TrackingMessage(t, c, valid)
  \/ \E t \in TaskIds : SubmitGetPhone(t)
  \/ \E t \in TaskIds : SubmitAssign(t)
  \/ \E t \in TaskIds : SubmitCreateSession(t, CrowdSessions)
  \/ \E t \in TaskIds : SubmitIncrement(t)
  \/ \E t \in TaskIds : SubmitCreateQr(t)
  \/ \E t \in TaskIds : SubmitInUse(t)
  \/ \E t \in TaskIds : SubmitStart(t)

InitFlags ==
  \/ InitAwaitingAsset(Crowd, Phones, MaxSubs)
  \/ InitAwaitingTracking(Crowd, Phones)

SpecFlags == InitFlags /\ [][NextFlags]_vars

\* Two customers and the device pool: activations by correctly signed
\* invoice_paid webhooks and first capture requests overlap at their awaits.  The detached capture flows are
\* left out.
NextRace ==
  \/ \E t \in TaskIds, body \in Bodies :
       /\ body.update_type = "invoice_paid"
       /\ WebhookBegin(t, body, ExpectedSignature(Token, body))
  \/ \E t \in TaskIds : ActivateWrite(t)
  \/ \E t \in TaskIds : ActivateGetPhones(t)
  \/ \E t \in TaskIds : ActivateAssign(t)
  \/ \E t \in TaskIds, c \in DOMAIN customers, valid \in BOOLEAN :
       TrackingMessage(t, c, valid)
  \/ \E t \in TaskIds : SubmitGetPhone(t)
  \/ \E t \in TaskIds : SubmitAssign(t)
  \/ \E t \in TaskIds : SubmitCreateSession(t, CrowdSessions)
  \/ \E t \in TaskIds : SubmitIncrement(t)
  \/ \E t \in TaskIds : SubmitCreateQr(t)
  \/ \E t \in TaskIds : SubmitInUse(t)
  \/ \E t \in TaskIds : SubmitStart(t)

SpecRace == InitRace(Rivals, Phones) /\ [][NextRace]_vars

\* One customer's capture request and cancellation, the administrator's
\* session cancel, and the administrator's device status route at any
\* moment, also while a session runs.
NextRelease ==
  \/ NextRent(1)
  \/ \E t \in TaskIds, i \in 1..Len(sessions) : AllIdle /\ AdminCancelSessionBegin(t, i)
  \/ \E t \in TaskIds : AdminCancelSessionWrite(t)
  \/ \E t \in TaskIds : AdminCancelSessionRelease(t)
  \/ \E p \in DOMAIN phones, status \in DeviceStatuses : AdminSetDeviceStatus(p, status)

SpecRelease == InitRent(Payer, Phones) /\ [][NextRelease]_vars

\* One customer whom the administrator blocks and unblocks between the
\* customer's requests: subscribing (plan menu, plan, asset) and capture
\* requests, handled one after another, the detached flows beside them.
NextBlock ==
  \/ \E t \in TaskIds, c \in DOMAIN customers : AllIdle /\ Subscribe(t, c)
  \/ \E t \in TaskIds, c \in DOMAIN customers, plan \in ScenarioPlans :
       AllIdle /\ PlanSelection(t, c, plan)
  \/ \E t \in TaskIds, c \in DOMAIN customers : AllIdle /\ AssetSelectionBegin(t, c)
  \/ \E t \in TaskIds, c \in DOMAIN customers : AllIdle /\ QrRequest(t, c)
  \/ \E t \in TaskIds, c \in DOMAIN customers, valid \in BOOLEAN :
       AllIdle /\ TrackingMessage(t, c, valid)
  \/ \E c \in DOMAIN customers, blocked \in BOOLEAN :
       AllIdle /\ AdminBlockCustomer(c, blocked)
  \/ \E t \in TaskIds : AssetCreateInvoice(t)
  \/ \E t \in TaskIds : AssetGetPending(t)
  \/ \E t \in TaskIds : AssetCancelOld(t)
  \/ \E t \in TaskIds : AssetCreateSub(t)
  \/ \E t \in TaskIds : SubmitGetPhone(t)
  \/ \E t \in TaskIds : SubmitAssign(t)
  \/ \E t \in TaskIds : SubmitCreateSession(t, MaxSessions)
  \/ \E t \in TaskIds : SubmitIncrement(t)
  \/ \E t \in TaskIds : SubmitCreateQr(t)
  \/ \E t \in TaskIds : SubmitInUse(t)
  \/ \E t \in TaskIds : SubmitStart(t)
  \/ \E f \in 1..Len(flows) : FlowStep(f)

\* the customer is new, or holds an active subscription
InitBlock == InitFor(Payer, Phones, MaxSubs) \/ InitLazy(Payer, Phones) \/ InitRent(Payer, Phones)

SpecBlock == InitBlock /\ [][NextBlock]_vars

\* One capture after another, on any adapter.
NextCapture ==
  \/ \E tracking \in BOOLEAN, providerName \in ProviderNames, configured \in BOOLEAN :
       CaptureStart(tracking, providerName, configured)
  \/ CapStatus
  \/ CapStartDevice
  \/ CapRecheck
  \/ CapLaunch
  \/ CapCommand
  \/ CapScreenshot

SpecCapture == InitRent(Customers, Phones) /\ [][NextCapture]_vars

\* The adapters called on their own, with every answer of the provider.
InitAdapters ==
  /\ InitFor(Payer, Phones, MaxSubs)
  /\ config = Token
  /\ \A p \in DOMAIN phones : phones[p].status = "available"

NextAdapters ==
  \/ \E adapter \in Adapters, deviceId \in DeviceIds : GetDeviceStatusCall(adapter, deviceId)
  \/ \E token \in {"none", "cached", "refreshed", "failed"} :
       \E response \in Responses_getDeviceStatus(probe.adapter, probe.deviceId) \cup {NoResponse} :
         GetDeviceStatusReturn(token, response)
  \/ \E adapter \in Adapters : TakeScreenshotCall(adapter)
  \/ \E adapter \in Adapters : \E response \in ShotResponses(adapter) :
       TakeScreenshotReturn(response)

SpecAdapters == InitAdapters /\ [][NextAdapters]_vars

\* The VMOS adapter's request() called by handlers and capture flows that
\* overlap at their awaits, with time passing.
NextVmos ==
  \/ \E k \in TaskIds : VmosRequestBegin(k)
  \/ \E k \in TaskIds, ok \in BOOLEAN : VmosTokenAnswer(k, ok)
  \/ \E k \in TaskIds : VmosRequestEnd(k)
  \/ TickMinutes
  \/ TickTokenLifetime

SpecVmos == InitAdapters /\ [][NextVmos]_vars

\* The same with one call of request() at a time.
NextVmosSeq ==
  \/ \E k \in TaskIds : TokenRequestsInFlight = {} /\ VmosRequestBegin(k)
  \/ \E k \in TaskIds, ok \in BOOLEAN : VmosTokenAnswer(k, ok)
  \/ \E k \in TaskIds : VmosRequestEnd(k)
  \/ TickMinutes
  \/ TickTokenLifetime

SpecVmosSeq == InitAdapters /\ [][NextVmosSeq]_vars


\* mapStatus and listDevices of every adapter, with every status field and
\* every answer of the provider.
NextListing ==
  \/ \E adapter \in Adapters, status \in JsonStatuses : MapStatusCall(adapter, status)
  \/ \E adapter \in Adapters : ListDevicesCall(adapter)
  \/ \E kind \in ResponseKinds \cup {"tokenFailed"}, statuses \in StatusLists :
       ListDevicesReturn(kind, statuses)

SpecListing == InitAdapters /\ [][NextListing]_vars

\* =================================================================
\* Properties
\* =================================================================
\* the stored records: customers, devices, subscriptions, sessions, artifacts
stored == <<customers, phones, subs, sessions, qrCodes>>

\* what every webhook request leaves alone (WebhookBegin changes at most
\* tasks and whReturn); steps that change more are not looked at further
WebhookFrame ==
  UNCHANGED <<clock, auxAll, config, phones, customers, subs, invoices,
              pendingPlanSelections, planMenuShown, activations,
              assignAttempts, rentAll>>

\* a request (with a signature header) that passes the signature check and
\* reports the payment of the invoice of a subscription in the given states
PaidDelivery(t, body, signature, states) ==
  /\ signature # NULL
  /\ body.json
  /\ body.update_type = "invoice_paid"
  /\ getSubscriptionByInvoiceId(body.invoice_id) # 0
  /\ subs[getSubscriptionByInvoiceId(body.invoice_id)].status \in states
  /\ verifyWebhookSignature(config, body, signature)
  /\ WebhookBegin(t, body, signature)

\* C1: when the invoice_paid deliveries for one invoice are handled one after
\* another, the subscription is activated exactly once: no subscription's
\* row is written by an activation twice and no subscription gets two device
\* selections; a webhook handler that went on to activate returns true with
\* exactly one activation done; and every delivery for a subscription that
\* is active starts no handler work, changes no stored record and returns
\* true.
C1_ActivatedOnce ==
  /\ [](\A s \in SubIds : activations[s] <= 1 /\ assignAttempts[s] <= 1)
  /\ [][\A t \in TaskIds :
          (tasks[t].kind = "webhook" /\ tasks'[t].kind = "idle")
            => /\ activations'[tasks[t].sub] = 1
               /\ assignAttempts'[tasks[t].sub] = 1
               /\ whReturn'.result = "true"]_vars
  /\ [][WebhookFrame =>
          \A t \in {u \in TaskIds : FreeSlot(u)}, body \in Bodies, signature \in Signatures :
          PaidDelivery(t, body, signature, {"active"})
            => /\ UNCHANGED <<stored, tasks, activations, assignAttempts>>
               /\ whReturn'.result = "true"]_vars

\* C1 witness: a delivery for an already activated subscription has returned
\* at the status check, and the subscription holds its one activation.
C1_Witness ==
  \E s \in 1..Len(subs) :
    /\ whReturn.site = "not pending"
    /\ whReturn.result = "true"
    /\ whReturn.inv = subs[s].invoiceId
    /\ subs[s].status = "active"
    /\ activations[s] = 1
    /\ assignAttempts[s] = 1

\* C2: when activation triggers for one pending subscription overlap, the
\* subscription's row is still written by one activation only and only one
\* device selection is made.
C2_OneActivationWhenOverlapping ==
  \A s \in SubIds : activations[s] <= 1 /\ assignAttempts[s] <= 1

\* C3: a cancelled subscription's row never changes again, and an
\* invoice_paid delivery for a cancelled subscription starts no activation,
\* changes no stored record and returns true.
C3_CancelThenPay ==
  /\ [][\A s \in 1..Len(subs) :
          subs[s].status = "cancelled" => subs'[s] = subs[s]]_vars
  /\ [][WebhookFrame =>
          \A t \in {u \in TaskIds : FreeSlot(u)}, body \in Bodies, signature \in Signatures :
          PaidDelivery(t, body, signature, {"cancelled"})
            => /\ UNCHANGED <<stored, tasks, activations, assignAttempts>>
               /\ whReturn'.result = "true"]_vars

\* C3 witness: the invoice of a subscription cancelled before it was ever
\* activated has been paid and its delivery has returned at the status check.
C3_Witness ==
  \E s \in 1..Len(subs) :
    /\ subs[s].status = "cancelled"
    /\ subs[s].expiresAt = NULL
    /\ subs[s].assignedPhoneId = 0
    /\ activations[s] = 0
    /\ invoices[subs[s].invoiceId] = "paid"
    /\ whReturn.site = "not pending"
    /\ whReturn.inv = subs[s].invoiceId

\* C4: a webhook request whose signature is not the keyed hash of its body,
\* or that arrives while the token is unset, starts no handler work and
\* changes no stored record; handleCryptoPayWebhook returns false for it
\* (also for an absent signature), and the route answers a request without
\* the header 400 without calling the handler.
C4_BadSignatureRejected ==
  /\ [](\A body \in Bodies : WebhookDecision(body, NULL) = "signature")
  /\ [][WebhookFrame =>
          \A t \in {u \in TaskIds : FreeSlot(u)}, body \in Bodies, signature \in Signatures :
          (/\ \/ config = NULL
              \/ signature = NULL
              \/ signature # ExpectedSignature(config, body)
           /\ WebhookBegin(t, body, signature))
            => /\ UNCHANGED <<stored, tasks, activations, assignAttempts, invoices>>
               /\ whReturn'.result = IF signature = NULL THEN "400" ELSE "false"]_vars

\* C4 witness: a request naming the paid invoice of a pending subscription
\* was refused at the signature check, and the subscription is still pending.
C4_Witness ==
  \E s \in 1..Len(subs) :
    /\ whReturn.site = "signature"
    /\ whReturn.result = "false"
    /\ whReturn.inv = subs[s].invoiceId
    /\ invoices[subs[s].invoiceId] = "paid"
    /\ subs[s].status = "pending_payment"
    /\ config # NULL

\* C5: with request handlers running one after another, a selection from
\* getAvailablePhones that directly follows a release never returns a device
\* bound to a session that is active and not yet expired.
C5_NoLiveDeviceAfterRelease ==
  ~(lastOp.op = "assign" /\ lastOp.afterRelease /\ lastOp.live)

\* C6: every customer has at most one pending_payment subscription and at
\* most one active subscription whose expiry lies in the future.
C6_OnePendingOneActive ==
  \A c \in DOMAIN customers :
    /\ Cardinality({i \in SubsOf(c) : subs[i].status = "pending_payment"}) <= 1
    /\ Cardinality({i \in SubsOf(c) : IsValidActive(subs[i], now)}) <= 1

\* C7: when a webhook handler completes an activation that found a device
\* available, the subscription is active, its assignedPhoneId is a device
\* that was available, and that device's status is now in_use.
C7_ActivationMarksDeviceInUse ==
  [][\A t \in TaskIds :
       (/\ tasks[t].kind = "webhook"
        /\ tasks[t].pc \in {"getPhones", "assign"}
        /\ tasks'[t].kind = "idle"
        /\ getAvailablePhones # {})
         => LET s == tasks[t].sub
            IN /\ subs'[s].status = "active"
               /\ subs'[s].assignedPhoneId \in getAvailablePhones
               /\ phones'[subs'[s].assignedPhoneId].status = "in_use"]_vars

\* C8: no device is the assigned device of two currently valid active
\* subscriptions of different customers.
C8_ExclusiveLeases ==
  \A i, j \in 1..Len(subs) :
    (/\ subs[i].customerId # subs[j].customerId
     /\ IsValidActive(subs[i], now)
     /\ IsValidActive(subs[j], now)
     /\ subs[i].assignedPhoneId # 0)
      => subs[i].assignedPhoneId # subs[j].assignedPhoneId

\* C9: in both capture operations, once the first getDeviceStatus has
\* reported the device not online and startDevice has returned false, the
\* capture has ended with a failure result and launchApp, executeCommand and
\* takeScreenshot have not been called for it.
C9_OfflineNotStartedFails ==
  (cap.firstOnline = "offline" /\ cap.started = "false")
    => /\ cap.pc = "done"
       /\ cap.result = "fail"
       /\ ~Called("launchApp")
       /\ ~Called("executeCommand")
       /\ ~Called("takeScreenshot")
       /\ cap.calls = <<Call("getDeviceStatus", ""), Call("startDevice", "")>>

\* C9 witness: a tracking capture whose device was offline and did not start.
C9_Witness ==
  /\ cap.tracking
  /\ cap.firstOnline = "offline"
  /\ cap.started = "false"
  /\ cap.result = "fail"

\* the flow has ended and no later pool operation touched its device
JustReleased(f) ==
  /\ flows[f].pc = "done"
  /\ lastOp.op = "release"
  /\ lastOp.phone = flows[f].phone

\* C10 (as amended): for every capture flow that has ended, the statuses its
\* artifact has held are pending, captured, delivered when the capture
\* succeeded and storing and sending the image raised no error; pending,
\* failed when the capture failed or storing the image raised; pending,
\* captured, failed when sending the image raised; and in every case the
\* flow's last step leaves the device available.
C10_StatusSequence ==
  \A f \in 1..Len(flows) :
    flows[f].pc = "done" =>
      LET h == qrHistory[flows[f].qr]
      IN /\ (flows[f].shot \in {"data", "url"} /\ flows[f].error = "none")
              => h = <<"pending", "captured", "delivered">>
         /\ (flows[f].shot = "fail" \/ flows[f].error = "store")
              => h = <<"pending", "failed">>
         /\ flows[f].error = "send"
              => h = <<"pending", "captured", "failed">>
         /\ JustReleased(f) => phones[flows[f].phone].status = "available"

\* C10 witness: a flow whose capture failed has ended, and its device is
\* available.
C10_Witness ==
  \E f \in 1..Len(flows) :
    /\ flows[f].pc = "done"
    /\ flows[f].shot = "fail"
    /\ qrHistory[flows[f].qr] = <<"pending", "failed">>
    /\ JustReleased(f)
    /\ phones[flows[f].phone].status = "available"

\* C10 as stated: pending, captured, delivered whenever the capture
\* succeeded; pending, failed and the device available when it failed.
C10_AsStated ==
  \A f \in 1..Len(flows) :
    flows[f].pc = "done" =>
      LET h == qrHistory[flows[f].qr]
      IN /\ flows[f].shot \in {"data", "url"}
              => h = <<"pending", "captured", "delivered">>
         /\ flows[f].shot = "fail"
              => /\ h = <<"pending", "failed">>
                 /\ JustReleased(f) => phones[flows[f].phone].status = "available"


\* the try/catch of the flow is behind it: completeSession is next or done
FlowEnded(f) == flows[f].pc \in {"complete", "release", "done"}

\* C11: once the capture flow of a session has left its try/catch (by
\* success, by a failure result, or by an exception of storing or sending
\* the image), and ever after, the session's artifact is delivered or
\* failed, never pending or captured.
C11_ArtifactTerminalAtFlowEnd ==
  \A f \in 1..Len(flows) :
    FlowEnded(f) => qrCodes[flows[f].qr].status \in {"delivered", "failed"}

\* C11 witness: a flow whose capture succeeded and whose sendPhoto raised has
\* ended; its artifact went from captured to failed.
C11_Witness ==
  \E f \in 1..Len(flows) :
    /\ flows[f].pc = "done"
    /\ flows[f].shot = "data"
    /\ flows[f].error = "send"
    /\ qrHistory[flows[f].qr] = <<"pending", "captured", "failed">>
    /\ qrCodes[flows[f].qr].status = "failed"

\* completed, cancelled, expired
TerminalSession == {"completed", "cancelled", "expired"}

\* C12: whenever a step changes a device's status from in_use to available
\* (the release at the end of a capture flow, the customer's session cancel,
\* the administrator's session cancel), every session bound to that device
\* is then completed, cancelled or expired.
C12_ReleaseOnlyWhenSessionsTerminal ==
  [][\A p \in DOMAIN phones :
       (phones[p].status = "in_use" /\ phones'[p].status = "available")
         => \A i \in 1..Len(sessions') :
              sessions'[i].phoneId = p => sessions'[i].status \in TerminalSession]_vars

\* the request of session k has been acknowledged (line 573) and its handler
\* has not returned yet
Acknowledged(k) ==
  \E t \in TaskIds :
    /\ tasks[t].kind = "submit"
    /\ tasks[t].sess = k
    /\ tasks[t].pc \in {"inUse", "start"}

\* the flow of session k has pushed its one outcome message
Outcome(k) ==
  \E f \in 1..Len(flows) : flows[f].sess = k /\ flows[f].pushes = 1

\* C13: no capture flow ever pushes more than one outcome message (image or
\* success text, failure text, error text), a flow that has left its
\* try/catch has pushed exactly one, and every acknowledged capture request
\* is eventually followed by that push, whichever step fails.
C13_OneOutcomePush ==
  /\ [](\A f \in 1..Len(flows) :
          /\ flows[f].pushes <= 1
          /\ FlowEnded(f) => flows[f].pushes = 1)
  /\ \A k \in 1..MaxSessions : Acknowledged(k) ~> Outcome(k)

\* C13 witness: a flow whose image could not be stored has ended after
\* pushing one message, the error text.
C13_Witness ==
  \E f \in 1..Len(flows) :
    /\ flows[f].pc = "done"
    /\ flows[f].error = "store"
    /\ flows[f].pushes = 1
    /\ qrCodes[flows[f].qr].status = "failed"

\* C14: every activation (a row write of storage.activateSubscription, by
\* the webhook, the payment check or the administrator's route) of a
\* subscription that is not pending_payment leaves the subscription's
\* status, paidAt, startsAt and expiresAt as they were.
C14_ActivationIdempotent ==
  [][\A s \in 1..Len(subs) :
       (activations'[s] > activations[s] /\ subs[s].status # "pending_payment")
         => /\ subs'[s].status = subs[s].status
            /\ subs'[s].paidAt = subs[s].paidAt
            /\ subs'[s].startsAt = subs[s].startsAt
            /\ subs'[s].expiresAt = subs[s].expiresAt]_vars

\* the status changes of a subscription row the lifecycle allows
AllowedStatusChanges ==
  {<<"pending_payment", "active">>, <<"pending_payment", "cancelled">>,
   <<"active", "cancelled">>}

\* C15: every step that changes a subscription's stored status changes it
\* from pending_payment to active, from pending_payment to cancelled or from
\* active to cancelled; in particular nothing writes expired and a cancelled
\* subscription keeps its status.
C15_StatusChangesAllowed ==
  [][\A s \in 1..Len(subs) :
       subs'[s].status # subs[s].status
         => <<subs[s].status, subs'[s].status>> \in AllowedStatusChanges]_vars

\* C16: a capture operation that has returned has returned a result value
\* (success with bytes, success with a URL, or failure), also when an
\* adapter call threw, in which case the result is a failure; nothing is ever
\* raised to the caller; and for a provider name that is not registered the
\* result is a failure and no adapter operation has been called.
C16_CaptureNeverRaises ==
  /\ cap.result # "raised"
  /\ cap.pc = "done" => cap.result \in ShotResults
  /\ cap.threw => (cap.pc = "done" /\ cap.result = "fail")
  /\ (cap.pc # "idle" /\ ~cap.registered)
       => (cap.pc = "done" /\ cap.result = "fail" /\ cap.calls = <<>>)

\* C16 witness: a tracking capture in which the third navigation command
\* threw has returned a failure.
C16_Witness ==
  /\ cap.pc = "done"
  /\ cap.tracking
  /\ cap.registered
  /\ cap.threw
  /\ cap.result = "fail"
  /\ Len(cap.calls) = 5
  /\ cap.calls[5] = Call("executeCommand", TrackingCommands[3])

\* a tracking submission that has passed the device lookup of lines 541-555
PastBinding(t) ==
  /\ tasks[t].kind = "submit"
  /\ tasks[t].pc \in {"createSession", "increment", "createQr", "inUse", "start"}

\* C17: an activation that finds no available device is not rolled back: it
\* ends with the subscription active, expiresAt set and no device assigned,
\* and stays so; a later capture request of a subscription without a device
\* that finds an available device assigns one to the subscription before any
\* session is created, so a session is only ever created for a subscription
\* with a device.
C17_LazyAssignmentAfterActivation ==
  /\ [][\A t \in TaskIds :
          (/\ tasks[t].kind \in {"webhook", "check"}
           /\ tasks[t].pc = "getPhones"
           /\ getAvailablePhones = {}
           /\ tasks'[t] # tasks[t])
          => /\ tasks'[t] = Idle
             /\ subs'[tasks[t].sub].status = "active"
             /\ subs'[tasks[t].sub].expiresAt = subs'[tasks[t].sub].startsAt + 14 * DayMinutes
             /\ subs'[tasks[t].sub].assignedPhoneId = 0]_vars
  /\ [][\A s \in DOMAIN subs :
          subs[s].status = "active"
          => /\ subs'[s].status = "active"
             /\ subs'[s].expiresAt = subs[s].expiresAt]_vars
  /\ [][\A t \in TaskIds :
          (/\ At(t, "submit", "getPhone")
           /\ subs[tasks[t].sub].assignedPhoneId = 0
           /\ getAvailablePhones # {}
           /\ tasks'[t] # tasks[t])
          => /\ tasks'[t].pc = "assign"
             /\ tasks'[t].phone \in getAvailablePhones
             /\ sessions' = sessions]_vars
  /\ [][\A t \in TaskIds :
          (At(t, "submit", "assign") /\ tasks'[t] # tasks[t])
          => /\ subs'[tasks[t].sub].assignedPhoneId = tasks[t].phone
             /\ tasks[t].phone # 0
             /\ sessions' = sessions]_vars
  /\ [](\A t \in TaskIds :
          PastBinding(t)
          => /\ subs[tasks[t].sub].assignedPhoneId = tasks[t].phone
             /\ tasks[t].phone # 0)
  /\ [][Len(sessions') > Len(sessions)
        => \E t \in TaskIds :
             /\ At(t, "submit", "createSession")
             /\ subs[tasks[t].sub].assignedPhoneId # 0]_vars

\* the subscription was activated once with no device available and has a
\* device from the capture request that is about to create its first session
C17_Witness ==
  \E t \in TaskIds :
    /\ At(t, "submit", "createSession")
    /\ lastOp.op = "assign"
    /\ lastOp.phone = tasks[t].phone
    /\ activations[tasks[t].sub] = 1
    /\ assignAttempts[tasks[t].sub] = 1
    /\ subs[tasks[t].sub].status = "active"
    /\ subs[tasks[t].sub].expiresAt # NULL
    /\ subs[tasks[t].sub].assignedPhoneId = tasks[t].phone
    /\ sessions = <<>>

\* the rate table of the last conversion was delivered
RatesDelivered == lastQuote.outcome # "none" /\ lastQuote.response.ok
ValidDirect == Found(lastQuote.response.assetEur)
ValidCross == Found(lastQuote.response.eurUsd) /\ Found(lastQuote.response.assetUsd)

\* C18: a conversion whose rate table has a valid direct asset->EUR rate
\* quotes the price divided by that rate; the cross rate through USD is
\* used only when there is no valid direct rate; a rate flagged invalid is
\* never used, so without a valid direct rate and a valid pair of cross
\* rates the conversion fails.
C18_DirectRateFirst ==
  RatesDelivered =>
    /\ ValidDirect
       => /\ lastQuote.outcome = "quoted"
          /\ lastQuote.amount = DirectAmount(lastQuote.eur, lastQuote.asset, lastQuote.response)
    /\ (~ValidDirect /\ ValidCross)
       => /\ lastQuote.outcome = "quoted"
          /\ lastQuote.amount = CrossAmount(lastQuote.eur, lastQuote.asset, lastQuote.response)
    /\ (~ValidDirect /\ ~ValidCross) => lastQuote.outcome = "failed"

\* what the code does with the same rate tables: the cross rate first
QuoteCrossRateFirst ==
  RatesDelivered =>
    /\ ValidCross
       => /\ lastQuote.outcome = "quoted"
          /\ lastQuote.amount = CrossAmount(lastQuote.eur, lastQuote.asset, lastQuote.response)
    /\ (~ValidCross /\ ValidDirect)
       => /\ lastQuote.outcome = "quoted"
          /\ lastQuote.amount = DirectAmount(lastQuote.eur, lastQuote.asset, lastQuote.response)
    /\ (~ValidDirect /\ ~ValidCross) => lastQuote.outcome = "failed"

\* known quotients: 25 EUR at 0.93 EUR per USDT, at 55000 EUR per BTC, and
\* through 1.08 USD per EUR and 60000 USD per BTC
QuoteExamples ==
  /\ toFixed(2500, 93, 2) = <<26, 8, 8>>
  /\ toFixed(2500, 5500000, 8) = <<0, 0, 0, 0, 4, 5, 4, 5, 5>>
  /\ toFixed(25 * 108, 6000000, 8) = <<0, 0, 0, 0, 4, 5, 0, 0, 0>>
  /\ toFixed(25 * 108, 100, 2) = <<27, 0, 0>>
  /\ toFixed(1999, 1000, 2) = <<2, 0, 0>>

\* a rate table from which nothing can be quoted, or no table at all
NoUsableRate(q) ==
  \/ ~q.response.ok
  \/ /\ ~Found(q.response.assetEur)
     /\ ~(Found(q.response.eurUsd) /\ Found(q.response.assetUsd))

\* C19: when the rate request fails or the table has neither a valid direct
\* rate nor a valid pair of cross rates, the asset selection ends there: no
\* invoice and no subscription row is created, every existing subscription
\* (a pending one included) is left as it was, and the customer is sent the
\* error message.
C19_ConversionFailureAborts ==
  [][\A t \in TaskIds :
       (/\ At(t, "asset", "invoice")
        /\ tasks'[t] # tasks[t]
        /\ NoUsableRate(lastQuote'))
       => /\ lastQuote'.outcome = "failed"
          /\ invoices' = invoices
          /\ subs' = subs
          /\ tasks'[t] = Idle
          /\ lastQuote'.reply = "error"]_vars

\* a conversion has failed while the customer had a pending subscription,
\* which is still there with its invoice
C19_Witness ==
  /\ lastQuote.outcome = "failed"
  /\ lastQuote.reply = "error"
  /\ NoUsableRate(lastQuote)
  /\ AllIdle
  /\ Len(invoices) = 1
  /\ Len(subs) = 1
  /\ subs[1].status = "pending_payment"
  /\ subs[1].invoiceId = 1

\* the provider request of the returned getDeviceStatus call failed: the
\* fetch was rejected, answered with a non-2xx status or with an application
\* error code, or the token request before it failed
RequestFailed == probe.token = "failed" \/ probe.response.kind \in {"transport", "http", "appError"}

\* C20: for each of the three adapters, a getDeviceStatus call whose
\* provider request failed returns online = false with status "error" and
\* does not throw.
C20_StatusErrorOnRequestFailure ==
  (probe.pc = "returned" /\ RequestFailed)
  => /\ ~probe.result.threw
     /\ ~probe.result.online
     /\ probe.result.status = "error"

\* what holds of all three adapters: a failed request never throws and
\* never reports the device online
StatusOfflineOnRequestFailure ==
  (probe.pc = "returned" /\ RequestFailed)
  => /\ ~probe.result.threw
     /\ ~probe.result.online
     /\ probe.result.status \in {"error", "not_found", "unknown"}
     /\ probe.adapter = "VMOS Cloud" => probe.result.status = "error"
     /\ probe.adapter = "DuoPlus" => probe.result.status = "not_found"

\* C21: a call of request() that finds a valid cached token sends no token
\* request, and calls that overlap without a valid cached token share one
\* token request: at most one is in flight at any time, and a call that
\* starts while one is in flight sends none of its own.
C21_TokenRefreshSingleFlight ==
  /\ [][\A k \in TaskIds :
          (vmos.calls[k].pc # "fetch" /\ vmos'.calls[k].pc = "fetch" /\ TokenValid
           /\ vmos.calls[k].pc # "tokenFetch")
          => vmos'.refreshes = vmos.refreshes]_vars
  /\ [](Cardinality(TokenRequestsInFlight) <= 1)
  /\ [][TokenRequestsInFlight # {} => vmos'.refreshes = vmos.refreshes]_vars

\* what the code keeps: a valid cached token is reused without a request
TokenCachedWhileValid ==
  [][\A k \in TaskIds :
       (vmos.calls[k].pc \in {"idle", "done", "failed"} /\ vmos'.calls[k] # vmos.calls[k]
        /\ TokenValid)
       => /\ vmos'.refreshes = vmos.refreshes
          /\ vmos'.calls[k] = [pc |-> "fetch", token |-> vmos.stsToken]]_vars

ScreenshotDataNeverEmpty ==
  (screenshot.pc = "returned" /\ screenshot.result.success)
  => screenshot.result.imageData = "bytes" \/ screenshot.result.imageUrl # "absent"

\* how often an adapter operation has been called in this capture
CallCount(fn) == Cardinality({k \in 1..Len(cap.calls) : cap.calls[k].fn = fn})

\* C23: within one capture getDeviceStatus is called at most twice and
\* startDevice at most once; when the device was not online, startDevice
\* returned true and the re-check reported not online again, the capture
\* has ended with the failure 'started but not online yet', which is not
\* the failure of a device that could not be started, and launchApp and
\* takeScreenshot have not been called.
C23_OneStartOneRecheck ==
  /\ CallCount("getDeviceStatus") <= 2
  /\ CallCount("startDevice") <= 1
  /\ (cap.firstOnline = "offline" /\ cap.started = "true" /\ cap.secondOnline = "offline")
       => /\ cap.pc = "done"
          /\ cap.result = "fail"
          /\ cap.error = "not online yet"
          /\ ~Called("launchApp")
          /\ ~Called("takeScreenshot")
          /\ cap.calls = <<Call("getDeviceStatus", ""), Call("startDevice", ""),
                           Call("getDeviceStatus", "")>>
  /\ (cap.firstOnline = "offline" /\ cap.started = "false")
       => cap.error = "could not be started"

\* a capture whose device was started and was still not online
C23_Witness ==
  /\ cap.pc = "done"
  /\ cap.firstOnline = "offline"
  /\ cap.started = "true"
  /\ cap.secondOnline = "offline"
  /\ cap.error = "not online yet"

\* C24: within one capture launchApp is called at most once; when it
\* returned false the capture has ended with a failure result and neither a
\* navigation command nor takeScreenshot has been called.
C24_LaunchFailureEndsCapture ==
  /\ CallCount("launchApp") <= 1
  /\ cap.launched = "false"
       => /\ cap.pc = "done"
          /\ cap.result = "fail"
          /\ cap.error = "launch failed"
          /\ ~Called("executeCommand")
          /\ ~Called("takeScreenshot")
          /\ cap.calls[Len(cap.calls)] = Call("launchApp", "de.dhl.paket")

\* a tracking capture whose launchApp returned false after the device had
\* been started
C24_Witness ==
  /\ cap.pc = "done"
  /\ cap.tracking
  /\ cap.launched = "false"
  /\ cap.started = "true"
  /\ cap.result = "fail"

\* the adapter calls of a capture whose launchApp returns true, in order
ExpectedCalls ==
  (IF cap.firstOnline = "online"
   THEN <<Call("getDeviceStatus", "")>>
   ELSE <<Call("getDeviceStatus", ""), Call("startDevice", ""), Call("getDeviceStatus", "")>>)
  \o <<Call("launchApp", "de.dhl.paket")>>
  \o (IF cap.tracking
      THEN [k \in 1..Len(TrackingCommands) |-> Call("executeCommand", TrackingCommands[k])]
      ELSE <<>>)
  \o <<Call("takeScreenshot", "")>>

IsPrefix(s, t) == Len(s) <= Len(t) /\ s = SubSeq(t, 1, Len(s))

\* C25: in a capture whose launchApp returned true the adapter calls made so
\* far are the beginning of: status check, (start, re-check,) launchApp, the
\* six navigation commands in their fixed order when a tracking number was
\* given and none otherwise, takeScreenshot; unless a call threw, the capture
\* ends only after all of them, also when a navigation command failed, and
\* its result is the result of takeScreenshot.
C25_CallOrderAndResult ==
  cap.launched = "true"
  => /\ IsPrefix(cap.calls, ExpectedCalls)
     /\ (cap.pc = "done" /\ ~cap.threw)
          => /\ cap.calls = ExpectedCalls
             /\ cap.shot # "none"
             /\ cap.result = cap.shot
     /\ ~cap.tracking => ~Called("executeCommand")

\* a tracking capture that started the device, had a navigation command
\* fail and returned the image
C25_Witness ==
  /\ cap.pc = "done"
  /\ cap.tracking
  /\ cap.started = "true"
  /\ cap.launched = "true"
  /\ cap.commandFailed
  /\ cap.result = "data"
  /\ Len(cap.calls) = 11

\* the step in which handler t chooses the device it is about to assign
ChoosesDevice(t) == tasks[t].pc # "assign" /\ tasks'[t].pc = "assign"

\* the device chosen is available, and carries a delivery identity whenever
\* an available device does
PreferredChoice(p) ==
  /\ p \in getAvailablePhones
  /\ (\E q \in getAvailablePhones : HasAccount(q)) => HasAccount(p)

\* C26: every device assignment, on activation and on a capture request,
\* chooses an available device with a delivery name and locker code whenever
\* one is available, and one without only when none with it is available.
C26_AssignmentPrefersIdentity ==
  [][\A t \in TaskIds : ChoosesDevice(t) => PreferredChoice(tasks'[t].phone)]_vars

\* what the code keeps: the preference on activation
ActivationPrefersIdentity ==
  [][\A t \in TaskIds :
       (ChoosesDevice(t) /\ tasks[t].kind \in {"webhook", "check"})
       => PreferredChoice(tasks'[t].phone)]_vars

\* the step in which session i becomes active
StartsSession(i) ==
  /\ i \in 1..Len(sessions)
  /\ sessions[i].status # "active"
  /\ sessions'[i].status = "active"

\* an active session has a device, a start time, and expires one duration
\* after its start
ActiveSessionComplete ==
  \A i \in 1..Len(sessions) :
    sessions[i].status = "active"
    => /\ sessions[i].phoneId \in DOMAIN phones
       /\ sessions[i].startedAt # NULL
       /\ sessions[i].expiresAt = sessions[i].startedAt + sessions[i].durationMinutes

\* the step that makes a session active is the start of a handler that holds
\* the session, and writes device, start time and expiry with the status
StartIsOneUpdate ==
  \A i \in 1..Len(sessions') :
    StartsSession(i)
    => /\ \E t \in TaskIds : /\ At(t, "submit", "start")
                             /\ tasks[t].sess = i
                             /\ sessions'[i].phoneId = tasks[t].phone
       /\ sessions'[i].startedAt = now
       /\ sessions'[i].expiresAt = now + sessions[i].durationMinutes

\* a handler reaches the start of its session by writing in_use to its device
MarksInUseBeforeStart ==
  \A t \in TaskIds :
    (tasks[t].pc # "start" /\ tasks'[t].pc = "start")
    => phones'[tasks'[t].phone].status = "in_use"

DeviceInUseAtStart ==
  [][\A i \in 1..Len(sessions') :
       StartsSession(i) => phones'[sessions'[i].phoneId].status = "in_use"]_vars

\* the step in which flow f runs completeSession
CompletesSession(f) ==
  /\ f \in 1..Len(flows)
  /\ flows[f].pc = "complete"
  /\ flows'[f].pc # "complete"

\* C28: completeSession changes only the session's status, to completed,
\* and its completed_at: the devices' statuses, the session's device
\* binding and other fields, the other sessions, the subscriptions and the
\* artifacts stay as they were.
C28_CompleteSessionFrame ==
  [][\A f \in 1..Len(flows) :
       CompletesSession(f)
       => /\ sessions' = [sessions EXCEPT ![flows[f].sess] =
                            [@ EXCEPT !.status = "completed", !.completedAt = now]]
          /\ phones' = phones
          /\ subs' = subs
          /\ qrCodes' = qrCodes
          /\ customers' = customers]_vars

\* a session completed after the clock advanced, still bound to its device,
\* which is still in use: completion has acted and the release has not
C28_Witness ==
  \E f \in 1..Len(flows) :
    /\ flows[f].pc = "release"
    /\ sessions[flows[f].sess].status = "completed"
    /\ sessions[flows[f].sess].completedAt > 0
    /\ sessions[flows[f].sess].phoneId = flows[f].phone
    /\ phones[flows[f].phone].status = "in_use"

\* the step in which pending subscription i is activated
ActivatesPending(i) ==
  /\ i \in 1..Len(subs)
  /\ subs[i].status = "pending_payment"
  /\ subs'[i].status = "active"

\* the days a subscription of each plan runs
DaysOfPlan(plan) ==
  IF plan = "1week" THEN 7 ELSE IF plan = "2weeks" THEN 14 ELSE 30

\* C29: the activation of a pending subscription sets paid_at = starts_at =
\* the activation time and expires_at = that time plus the days of the plan
\* (7, 14 or 30), and expires_at - paid_at of every subscription that was
\* paid equals the days of its plan.
C29_ActivationStampsPlanDuration ==
  /\ [][\A i \in 1..Len(subs') :
          ActivatesPending(i)
          => /\ subs'[i].paidAt = now
             /\ subs'[i].startsAt = now
             /\ subs'[i].expiresAt = now + DaysOfPlan(subs[i].plan) * 24 * 60]_vars
  /\ [](\A i \in 1..Len(subs) :
          subs[i].paidAt # NULL
          => /\ subs[i].plan \in {"1week", "2weeks", "1month"}
             /\ subs[i].expiresAt - subs[i].paidAt
                  = DaysOfPlan(subs[i].plan) * 24 * 60)

\* a one-month and a one-week subscription, the second activated later than
\* the first, each expiring its own number of days after it was paid
C29_Witness ==
  \E i, j \in 1..Len(subs) :
    /\ subs[i].plan = "1month"
    /\ subs[i].status = "active"
    /\ subs[i].expiresAt = subs[i].paidAt + 30 * 24 * 60
    /\ subs[j].plan = "1week"
    /\ subs[j].paidAt > subs[i].paidAt
    /\ subs[j].startsAt = subs[j].paidAt
    /\ subs[j].expiresAt = subs[j].paidAt + 7 * 24 * 60

\* customer c has a subscription that is active and expires in the future
HasLiveSubscription(c) ==
  \E i \in 1..Len(subs) :
    /\ subs[i].customerId = c
    /\ subs[i].status = "active"
    /\ subs[i].expiresAt > now

\* the step in which a tracking number of customer c passes the check of
\* handleTrackingNumberSubmit in handler t
PassesCheck(t, c) ==
  /\ tasks[t].kind # "submit"
  /\ tasks'[t].kind = "submit"
  /\ tasks'[t].cust = c

\* C30: a session is created only by a tracking-number submit whose customer
\* had, at its check, a subscription with status active and expires_at in
\* the future; a submit of a customer without one is answered with the
\* notice and creates no session and no artifact and changes no device
\* status.
C30_SessionOnlyWithLiveSubscription ==
  /\ [][\A t \in TaskIds, c \in DOMAIN customers :
          PassesCheck(t, c) => HasLiveSubscription(c)]_vars
  /\ [][Len(sessions') > Len(sessions)
          => \E t \in TaskIds :
               /\ tasks[t].kind = "submit"
               /\ sessions' = Append(sessions, sessions'[Len(sessions')])
               /\ sessions'[Len(sessions')].customerId = tasks[t].cust]_vars
  /\ [][\A c \in DOMAIN customers :
          (c \in pendingTrackingInput /\ c \notin pendingTrackingInput'
             /\ ~HasLiveSubscription(c))
          => /\ tasks' = tasks
             /\ sessions' = sessions
             /\ qrCodes' = qrCodes
             /\ phones' = phones]_vars
  /\ [](\A c \in DOMAIN customers :
          (\A i \in 1..Len(subs) :
             subs[i].customerId = c => subs[i].status = "pending_payment")
          => /\ c \notin pendingTrackingInput
             /\ \A i \in 1..Len(sessions) : sessions[i].customerId # c)

\* a customer whose subscription ran out between the request and the
\* tracking number was refused and has no session and no artifact, and the
\* device is still available
C30_Witness ==
  \E c \in expiredNotice :
    /\ \E i \in 1..Len(subs) :
         /\ subs[i].customerId = c
         /\ subs[i].status = "active"
         /\ subs[i].expiresAt <= now
    /\ sessions = <<>>
    /\ qrCodes = <<>>
    /\ \A p \in DOMAIN phones : phones[p].status = "available"

\* the other refusal: the subscription was cancelled between the request
\* and the tracking number
RefusedAfterCancel ==
  \E c \in expiredNotice :
    /\ \A i \in 1..Len(subs) : subs[i].customerId = c => subs[i].status = "cancelled"
    /\ sessions = <<>>

\* handlers of one kind in flight for customer c
HandlersOf(kind, c) == {t \in TaskIds : tasks[t].kind = kind /\ tasks[t].cust = c}

\* the step in which a handler of the kind starts for customer c
StartsHandler(kind, c) ==
  \E t \in TaskIds : /\ tasks[t].kind # kind
                     /\ tasks'[t].kind = kind
                     /\ tasks'[t].cust = c

\* one plan selection, or none, per customer: at most one asset selection of
\* the customer gets past the flag, and so at most one invoice and one
\* subscription come of it
OneInvoicePerPlanSelection ==
  /\ \A c \in DOMAIN customers :
       Cardinality(HandlersOf("asset", c)) + Cardinality(SubsOf(c)) <= 1
  /\ Len(invoices) <= Cardinality(DOMAIN customers)

\* one /request, or none, per customer: at most one text message of the
\* customer becomes a capture request
OneCapturePerRequest ==
  \A c \in DOMAIN customers :
    Cardinality({t \in HandlersOf("submit", c) : tasks[t].sess = 0})
      + Cardinality({i \in 1..Len(sessions) : sessions[i].customerId = c}) <= 1

\* C31: the conversational flags are cleared on consumption.  An asset
\* selection goes on only if the customer's plan selection is pending and
\* clears it in the same step, so one plan selection gives at most one
\* invoice and subscription, also with two asset callbacks in flight, and
\* none without a pending plan selection; a text message becomes a capture
\* request only if the customer is awaited and clears that flag in the same
\* step, so one /request gives at most one capture.
C31_FlagsConsumedOnce ==
  /\ []OneInvoicePerPlanSelection
  /\ []OneCapturePerRequest
  /\ [][\A c \in DOMAIN customers :
          /\ StartsHandler("asset", c)
               => /\ pendingPlanSelections[c] # "none"
                  /\ pendingPlanSelections'[c] = "none"
          /\ StartsHandler("submit", c)
               => /\ c \in pendingTrackingInput
                  /\ c \notin pendingTrackingInput']_vars
  /\ [][(Len(invoices') > Len(invoices) \/ Len(subs') > Len(subs))
          => \E t \in TaskIds : tasks[t].kind = "asset"]_vars

\* two asset selections in flight at once, each of its own customer, one of
\* them with its invoice, and every plan selection consumed
C31_Witness ==
  \E t, u \in TaskIds :
    /\ t # u
    /\ tasks[t].kind = "asset"
    /\ tasks[u].kind = "asset"
    /\ tasks[t].inv # 0
    /\ Len(invoices) = 1
    /\ \A c \in DOMAIN customers : pendingPlanSelections[c] = "none"

\* the same for text messages: two capture requests in flight, one session
\* created, nobody awaited any more
TwoSubmitsInFlight ==
  \E t, u \in TaskIds :
    /\ t # u
    /\ tasks[t].kind = "submit"
    /\ tasks[u].kind = "submit"
    /\ Len(sessions) = 1
    /\ pendingTrackingInput = {}

\* the step in which handler t writes the device it chose to its subscription
WritesAssignment(t) == tasks[t].pc = "assign" /\ tasks'[t].pc # "assign"

\* device p is the assigned device of two subscriptions
AssignedTwice(p) ==
  \E i, j \in 1..Len(subs) :
    /\ i # j
    /\ subs[i].assignedPhoneId = p
    /\ subs[j].assignedPhoneId = p

\* C32: an assignment request chooses among the devices whose status is
\* available when it reads the list and then writes its choice without
\* looking again, whatever other requests hold or have written in between;
\* so two requests that both read before either has written in_use bind the
\* same device to two subscriptions.
C32_AssignmentIsCheckThenAct ==
  /\ [][\A t \in TaskIds :
          ChoosesDevice(t) => phones[tasks'[t].phone].status = "available"]_vars
  /\ [][\A t \in TaskIds :
          WritesAssignment(t)
          => subs' = [subs EXCEPT ![tasks[t].sub].assignedPhoneId = tasks[t].phone]]_vars

\* two capture requests in flight that both read the device as available,
\* neither has written in_use yet, and the device is bound to both their
\* subscriptions
C32_Witness ==
  \E t, u \in TaskIds :
    /\ t # u
    /\ tasks[t].kind = "submit"
    /\ tasks[u].kind = "submit"
    /\ tasks[t].pc \in {"createSession", "increment", "createQr", "inUse"}
    /\ tasks[u].pc \in {"createSession", "increment", "createQr", "inUse"}
    /\ tasks[t].phone = tasks[u].phone
    /\ tasks[t].sub # tasks[u].sub
    /\ subs[tasks[t].sub].assignedPhoneId = tasks[t].phone
    /\ subs[tasks[u].sub].assignedPhoneId = tasks[t].phone
    /\ phones[tasks[t].phone].status = "available"

\* the same between two activations: both handlers hold the device at their
\* write, and one has written
TwoActivationsOneDevice ==
  \E t, u \in TaskIds :
    /\ t # u
    /\ tasks[t].kind = "webhook"
    /\ tasks[u].kind = "webhook"
    /\ tasks[t].pc = "assign"
    /\ tasks[u].pc = "assign"
    /\ tasks[t].phone = tasks[u].phone
    /\ tasks[t].sub # tasks[u].sub

\* and between an activation and a capture request, after both wrote
ActivationAndRequestOneDevice ==
  \E t \in TaskIds, i \in 1..Len(subs) :
    /\ tasks[t].kind = "submit"
    /\ tasks[t].pc = "createSession"
    /\ i # tasks[t].sub
    /\ whReturn.site = "activated"
    /\ whReturn.inv = subs[i].invoiceId
    /\ subs[i].assignedPhoneId = tasks[t].phone
    /\ subs[tasks[t].sub].assignedPhoneId = tasks[t].phone

\* what the race leads to: a device assigned to two subscriptions
NoDeviceAssignedTwice == \A p \in DOMAIN phones : ~AssignedTwice(p)

\* the order of one session's steps, read off the flow's position: the flow
\* exists only once its session was started on its device; while the capture
\* runs no artifact status is written and the session is not completed; the
\* artifact's status is written with the capture result known; the session
\* is completed with the artifact's status written; a flow that has released
\* its device has completed its session
SessionStepsInOrder ==
  \A f \in 1..Len(flows) :
    LET s == sessions[flows[f].sess]
        h == qrHistory[flows[f].qr]
    IN /\ s.startedAt # NULL
       /\ s.phoneId = flows[f].phone
       /\ flows[f].pc = "capture"
            => /\ flows[f].shot = "none"
               /\ h = <<"pending">>
       /\ Len(h) > 1 => flows[f].shot # "none"
       /\ flows[f].pc \in {"capture", "deliver", "complete"} => s.completedAt = NULL
       /\ s.completedAt # NULL => Len(h) > 1
       /\ flows[f].pc = "done" => s.completedAt # NULL

\* the step in which flow f releases its device
ReleasesDevice(f) ==
  /\ f \in 1..Len(flows)
  /\ flows[f].pc = "release"
  /\ flows'[f].pc = "done"

\* the step in which a handler detaches a capture flow
DetachesFlow == Len(flows') > Len(flows)

\* C33: the steps of one session are in order.  The handler acknowledges,
\* writes in_use and starts the session before it detaches the flow, which
\* makes the first provider call; the artifact's status is written only with
\* the capture result known, the session completed only after that, and the
\* device released only after the completion; and the handler returns in
\* the step that detaches the flow, the capture still to come.
C33_SessionStepsSequential ==
  /\ []SessionStepsInOrder
  /\ [][\A f \in 1..Len(flows) :
          ReleasesDevice(f) => sessions[flows[f].sess].completedAt # NULL]_vars
  /\ [][DetachesFlow
          => \E t \in TaskIds :
               /\ At(t, "submit", "start")
               /\ tasks'[t] = Idle
               /\ flows' = Append(flows, flows'[Len(flows')])
               /\ flows'[Len(flows')].sess = tasks[t].sess
               /\ flows'[Len(flows')].pc = "capture"
               /\ sessions'[tasks[t].sess].status = "active"]_vars
  /\ [][\A t \in TaskIds :
          (tasks[t].pc # "start" /\ tasks'[t].pc = "start")
          => /\ tasks[t].pc = "inUse"
             /\ Acknowledged(tasks[t].sess)
             /\ phones'[tasks[t].phone].status = "in_use"]_vars

\* the request path has returned, the session is active on its device in
\* use, and the capture has not produced anything yet
C33_Witness ==
  /\ AllIdle
  /\ \E f \in 1..Len(flows) :
       /\ flows[f].pc = "capture"
       /\ sessions[flows[f].sess].status = "active"
       /\ phones[flows[f].phone].status = "in_use"
       /\ qrCodes[flows[f].qr].status = "pending"

\* ---------------------------------------------------------------- C34
\* the step is the release of device p: the last step of a capture flow
\* (line 619) or of a session cancel (line 678, routes 125-127)
ReleaseOf(p) ==
  \/ \E f \in 1..Len(flows) :
       /\ flows[f].phone = p
       /\ flows[f].pc = "release"
       /\ flows'[f].pc = "done"
  \/ \E t \in TaskIds :
       /\ tasks[t].phone = p
       /\ tasks[t].kind \in {"cancelSession", "adminCancelSession"}
       /\ tasks[t].pc = "release"
       /\ tasks'[t] = Idle

\* C34: the release at the end of a capture flow and on a session cancel
\* sets the device's status to available whatever the status was, also
\* maintenance or offline set by the administrator during the session, and
\* is pure bookkeeping: it makes no provider call and writes nothing else.
C34_ReleaseIsUnconditional ==
  [][\A p \in DOMAIN phones :
       ReleaseOf(p)
       => /\ phones'[p].status = "available"
          /\ lastOp'.found = phones[p].status
          /\ UNCHANGED <<cap, auxAll, sessions, qrCodes, subs>>]_vars

\* the capture flow has ended on a device the administrator had taken out
\* of service during the session, and the device is available
C34_Witness ==
  /\ AllIdle
  /\ lastOp.op = "release"
  /\ lastOp.found \in {"maintenance", "offline"}
  /\ phones[lastOp.phone].status = "available"
  /\ \E f \in 1..Len(flows) :
       /\ flows[f].pc = "done"
       /\ flows[f].phone = lastOp.phone
       /\ sessions[flows[f].sess].status = "completed"

\* the same on a cancel: the session is cancelled while its flow still
\* runs, and the cancel has released a device that was under maintenance
CancelReleasesServicedDevice ==
  /\ AllIdle
  /\ lastOp.op = "release"
  /\ lastOp.found \in {"maintenance", "offline"}
  /\ phones[lastOp.phone].status = "available"
  /\ \E f \in 1..Len(flows) :
       /\ flows[f].pc = "capture"
       /\ flows[f].phone = lastOp.phone
       /\ sessions[flows[f].sess].status = "cancelled"

\* ---------------------------------------------------------------- C35
\* C35: the session statuses cancelled and completed are absorbing: once a
\* session is cancelled (by the customer or the administrator) or
\* completed, no later step, the end of its still-running capture flow
\* included, changes its status.
C35_TerminalStatusAbsorbing ==
  [][\A i \in 1..Len(sessions) :
       sessions[i].status \in {"cancelled", "completed"}
       => sessions'[i].status = sessions[i].status]_vars

\* ---------------------------------------------------------------- C36
\* C36: in every reachable state at most one session with status active is
\* bound to any device, also when the same customer submits a second
\* tracking number while the first capture is still running.
C36_OneActiveSessionPerDevice ==
  \A p \in DOMAIN phones :
    Cardinality({i \in 1..Len(sessions) :
                   sessions[i].status = "active" /\ sessions[i].phoneId = p}) <= 1

\* ---------------------------------------------------------------- C37
\* session k has been started (line 576)
SessionActive(k) == k <= Len(sessions) /\ sessions[k].status = "active"

SessionCompleted(k) == k <= Len(sessions) /\ sessions[k].status = "completed"

\* the device session k was started on is available
DeviceReturned(k) ==
  /\ k <= Len(sessions)
  /\ sessions[k].phoneId # 0
  /\ phones[sessions[k].phoneId].status = "available"

\* no handler is in flight and every capture flow has ended
Quiescent == AllIdle /\ \A f \in 1..Len(flows) : flows[f].pc = "done"

\* C37: with every awaited call returning, every session that becomes
\* active eventually is completed and its device eventually is available
\* again, for every outcome of the capture (success, failure result,
\* exception); a device marked in_use eventually is available again, and no
\* device is in_use once the handlers have returned and the flows have ended.
C37_SessionsEndAndDevicesReturn ==
  /\ \A k \in 1..MaxSessions : SessionActive(k) ~> SessionCompleted(k)
  /\ \A k \in 1..MaxSessions : SessionActive(k) ~> DeviceReturned(k)
  /\ \A p \in Phones : (phones[p].status = "in_use") ~> (phones[p].status = "available")
  /\ [](Quiescent => \A p \in DOMAIN phones : phones[p].status # "in_use")

\* C37 witness: the capture threw (the image could not be stored), and the
\* flow has ended with the session completed and the device available
C37_Witness ==
  /\ Quiescent
  /\ \E f \in 1..Len(flows) :
       /\ flows[f].error = "store"
       /\ SessionCompleted(flows[f].sess)
       /\ DeviceReturned(flows[f].sess)

\* ---------------------------------------------------------------- C38
\* a correctly signed invoice_paid delivery for invoice i is being handled
\* or was the request handled last
PaidWebhookHandled(i) ==
  \/ \E t \in TaskIds : tasks[t].kind = "webhook" /\ tasks[t].inv = i
  \/ /\ whReturn.inv = i
     /\ whReturn.site \in {"no subscription", "not pending", "activated"}

\* the subscription of invoice i is stored and is active, or was cancelled
SubscriptionSettled(i) ==
  \E s \in 1..Len(subs) :
    /\ subs[s].invoiceId = i
    /\ subs[s].status \in {"active", "cancelled"}

WebhookBeforeRow ==
  /\ whReturn.site = "no subscription"
  /\ whReturn.inv \in 1..Len(invoices)
  /\ invoices[whReturn.inv] = "paid"

\* outside that window the delivery does activate
C38_ActivatesWhenRowStored ==
  \A i \in 1..MaxSubs :
    (\E t \in TaskIds : tasks[t].kind = "webhook" /\ tasks[t].inv = i)
      ~> SubscriptionSettled(i)

\* ---------------------------------------------------------------- C39
\* the step starts or continues a handler of customer c's request
HandlerStepOf(c) ==
  \E t \in TaskIds :
    /\ tasks'[t] # tasks[t]
    /\ c \in {tasks[t].cust, tasks'[t].cust}

\* C39: while a customer's block flag is set, no step creates a
\* subscription or a session (with its artifact) of that customer, and no
\* step of a handler of that customer's requests changes a device status.
C39_BlockedCustomerCreatesNothing ==
  [][\A c \in DOMAIN customers :
       customers[c].isBlocked
       => /\ \A s \in (Len(subs) + 1)..Len(subs') : subs'[s].customerId # c
          /\ \A k \in (Len(sessions) + 1)..Len(sessions') : sessions'[k].customerId # c
          /\ \A q \in (Len(qrCodes) + 1)..Len(qrCodes') :
               sessions'[qrCodes'[q].sessionId].customerId # c
          /\ HandlerStepOf(c) => phones' = phones]_vars

\* a blocked customer's asset selection is creating an invoice (no handler
\* was in flight when the flag was set)
BlockedAssetSelectionInFlight ==
  \E t \in TaskIds :
    /\ tasks[t].kind = "asset"
    /\ customers[tasks[t].cust].isBlocked

\* a blocked customer's tracking number is being handled
BlockedCaptureRequestInFlight ==
  \E t \in TaskIds :
    /\ tasks[t].kind = "submit"
    /\ customers[tasks[t].cust].isBlocked

\* ---------------------------------------------------------------- C40
\* C40: every adapter's mapStatus is total: for every status field it
\* returns one of online, offline, starting, stopping, unknown (unknown for
\* an unrecognized or missing value and for a value of the wrong type) and
\* never throws; and listDevices returns a list, the empty one on a
\* provider failure, and never throws.
C40_MapStatusTotal ==
  /\ listing.pc = "mapped" => listing.mapped \in ProviderDeviceStatuses
  /\ listing.pc = "listed"
     => /\ ~listing.threw
        /\ listing.kind # "ok" => listing.devices = <<>>

\* the part that holds: listDevices never throws, returns [] on a failure
\* of the request, and otherwise a list of statuses of the five
ListDevicesNeverThrows ==
  listing.pc = "listed"
  => /\ ~listing.threw
     /\ listing.kind # "ok" => listing.devices = <<>>
     /\ \A i \in 1..Len(listing.devices) : listing.devices[i] \in ProviderDeviceStatuses

\* mapStatus is total on every value but GeeLark's on a non-string
MapStatusTotalOffWrongType ==
  (/\ listing.pc = "mapped"
   /\ ~(listing.adapter = "GeeLark" /\ listing.input.type \notin {"string", "missing"}))
  => listing.mapped \in ProviderDeviceStatuses

\* one device with a numeric status empties GeeLark's whole device list
GeeLarkListEmptiedByOneStatus ==
  /\ listing.pc = "listed"
  /\ listing.adapter = "GeeLark"
  /\ listing.kind = "ok"
  /\ Len(listing.statuses) = 2
  /\ listing.statuses[1].type = "string"
  /\ listing.statuses[2].type = "number"
  /\ listing.devices = <<>>
====
